---- MODULE Spec2Model ----
(***************************************************************************)
(* Model of the webby-t reader: the ReaderView state machine               *)
(* (src/unnamed/part_005, package views) driven by App.Update              *)
(* (src/internal/ui/app.go).                                               *)
(*                                                                         *)
(* Conventions.                                                            *)
(*  - A Go string is a sequence of one-character strings; a []string is a  *)
(*    sequence of such sequences.  Go indexes from 0, TLA+ from 1: the Go  *)
(*    element x[i] is x[i + 1] here.                                       *)
(*  - The float64 text scale is kept in tenths (1.0 is 10); a float64      *)
(*    position in [0,1] is kept as an exact fraction <<num, den>>.         *)
(*  - A handler is an operator from the ReaderView record to a record      *)
(*    [v |-> the view after the handler, cmd |-> the commands returned].   *)
(*  - A tea.Cmd runs in its own goroutine and delivers its message later:  *)
(*    the commands in flight are the bag `inflight`.                       *)
(***************************************************************************)
EXTENDS Integers, Sequences, FiniteSets, Bags, TLC

VARIABLES
    v,          \* the ReaderView (all its fields)
    app,        \* the App: currentView, showHelp
    inflight,   \* bag of commands issued and not yet delivered
    bookmarks,  \* config.Bookmarks
    ev,         \* observation: the event handled by the last step
    saved,      \* observation: the SavePosition calls made by the last step
    hist        \* observation: what the session has requested so far

vars == <<v, app, inflight, bookmarks, ev, saved, hist>>

-----------------------------------------------------------------------------
(* Bounds of the model *)

\* commands in flight beyond which a key of the reader starts no further one
MaxInFlight == 1
\* commands of an earlier session in flight beyond which no book is opened
MaxStale == 1
\* characters in the search query
MaxQuery == 1
\* bookmarks kept in the configuration
MaxBookmarks == 1
\* zoom steps explored away from the default text scale
MaxZoom == 2
\* words in a text given to the line wrapper on its own
MaxWords == 3
\* commands in flight beyond which the user who does not wait for a load
\* starts no further one
MaxPending == 2

(* Program constants *)

\* config.MinTextScale, MaxTextScale, DefaultTextScale, TextScaleStep, in tenths
MinTextScale == 5
MaxTextScale == 20
DefaultTextScale == 10
TextScaleStep == 1
\* wrapContent: "Minimum readable width"
MinWidth == 20
\* wrapContent: baseWidth := v.width - 4
Padding == 4
\* visibleLines: lines := v.height - 5
Chrome == 5
\* NewReaderView: width 80, height 24
InitWidth == 80
InitHeight == 24

-----------------------------------------------------------------------------
(* Go helpers *)

max(a, b) == IF a > b THEN a ELSE b
min(a, b) == IF a < b THEN a ELSE b

\* Go's integer division truncates toward zero
GoDiv(a, b) == IF a >= 0 THEN a \div b ELSE -((-a) \div b)

IsSpace(c) == c \in {" ", "\t"}

\* strings.ToLower, on the model's alphabet
ToLowerChar(c) == IF c = "A" THEN "a" ELSE IF c = "B" THEN "b" ELSE c
ToLower(s) == [i \in 1..Len(s) |-> ToLowerChar(s[i])]

\* strings.Split(s, "\n")
RECURSIVE SplitLines(_)
SplitLines(s) ==
    IF \E i \in 1..Len(s) : s[i] = "\n"
    THEN LET i == CHOOSE k \in 1..Len(s) :
                      s[k] = "\n" /\ \A j \in 1..(k - 1) : s[j] # "\n"
         IN  <<SubSeq(s, 1, i - 1)>> \o SplitLines(SubSeq(s, i + 1, Len(s)))
    ELSE <<s>>

\* strings.Fields(s): the maximal runs of non-space characters
RECURSIVE Fields(_)
Fields(s) ==
    IF s = <<>> THEN <<>>
    ELSE IF IsSpace(s[1]) THEN Fields(Tail(s))
    ELSE LET stop == IF \E i \in 1..Len(s) : IsSpace(s[i])
                     THEN CHOOSE k \in 1..Len(s) :
                              IsSpace(s[k]) /\ \A j \in 1..(k - 1) : ~IsSpace(s[j])
                     ELSE Len(s) + 1
         IN  <<SubSeq(s, 1, stop - 1)>> \o Fields(SubSeq(s, stop, Len(s)))

\* the word loop with a line buffer one character too wide
RECURSIVE WrapWordsTooWide(_, _, _, _)
WrapWordsTooWide(words, cur, out, maxWidth) ==
    IF words = <<>>
    THEN IF Len(cur) > 0 THEN Append(out, cur) ELSE out
    ELSE LET word == Head(words) IN
         IF Len(cur) = 0
         THEN WrapWordsTooWide(Tail(words), word, out, maxWidth)
         ELSE IF Len(cur) + Len(word) <= maxWidth
         THEN WrapWordsTooWide(Tail(words), cur \o <<" ">> \o word, out, maxWidth)
         ELSE WrapWordsTooWide(Tail(words), word, Append(out, cur), maxWidth)

\* the word loop without the flush of the last line buffer
RECURSIVE WrapWordsNoFlush(_, _, _, _)
WrapWordsNoFlush(words, cur, out, maxWidth) ==
    IF words = <<>>
    THEN out
    ELSE LET word == Head(words) IN
         IF Len(cur) = 0
         THEN WrapWordsNoFlush(Tail(words), word, out, maxWidth)
         ELSE IF Len(cur) + 1 + Len(word) <= maxWidth
         THEN WrapWordsNoFlush(Tail(words), cur \o <<" ">> \o word, out, maxWidth)
         ELSE WrapWordsNoFlush(Tail(words), word, Append(out, cur), maxWidth)

\* the word loop of wrapContent: cur is currentLine, out the lines appended so far
RECURSIVE WrapWords(_, _, _, _)
WrapWords(words, cur, out, maxWidth) ==
    IF words = <<>>
    THEN IF Len(cur) > 0 THEN Append(out, cur) ELSE out
    ELSE LET word == Head(words) IN
         IF Len(cur) = 0
         THEN WrapWords(Tail(words), word, out, maxWidth)
         ELSE IF Len(cur) + 1 + Len(word) <= maxWidth
         THEN WrapWords(Tail(words), cur \o <<" ">> \o word, out, maxWidth)
         ELSE WrapWords(Tail(words), word, Append(out, cur), maxWidth)

\* the paragraph loop that emits nothing for a paragraph of spaces only
RECURSIVE WrapParagraphsSkipSpaces(_, _)
WrapParagraphsSkipSpaces(paragraphs, maxWidth) ==
    IF paragraphs = <<>> THEN <<>>
    ELSE LET paragraph == Head(paragraphs)
             words == Fields(paragraph)
             these == IF paragraph = <<>> THEN << <<>> >>
                      ELSE WrapWords(words, <<>>, <<>>, maxWidth)
         IN  these \o WrapParagraphsSkipSpaces(Tail(paragraphs), maxWidth)

\* the paragraph loop of wrapContent
RECURSIVE WrapParagraphs(_, _)
WrapParagraphs(paragraphs, maxWidth) ==
    IF paragraphs = <<>> THEN <<>>
    ELSE LET paragraph == Head(paragraphs)
             words == Fields(paragraph)
             these == IF paragraph = <<>> THEN << <<>> >>
                      ELSE IF Len(words) = 0 THEN << <<>> >>
                      ELSE WrapWords(words, <<>>, <<>>, maxWidth)
         IN  these \o WrapParagraphs(Tail(paragraphs), maxWidth)

WrapText(content, maxWidth) == WrapParagraphs(SplitLines(content), maxWidth)

\* the width clamp of wrapContent and buildContinuousContent
ScaledWidth(width, textScale) ==
    LET baseWidth == width - Padding
        scaledWidth == GoDiv(baseWidth * 10, textScale)
        atLeast == IF scaledWidth < MinWidth THEN MinWidth ELSE scaledWidth
    IN  IF atLeast > baseWidth THEN baseWidth ELSE atLeast

-----------------------------------------------------------------------------
(* The Content Source: one document with two chapters.  The texts are      *)
(* chosen so that the wrap differs between the widths the model visits.    *)

NoBook == "nil"
TheBook == "book1"

Word(c, n) == [i \in 1..n |-> c]

ChapterTexts ==
    << \* chapter 0: a paragraph of four long words and a short paragraph
       Word("a", 9) \o <<" ">> \o Word("b", 9) \o <<" ">> \o Word("a", 9) \o <<" ">>
           \o Word("b", 9) \o <<"\n">> \o <<"A", "b">>,
       \* chapter 1: two short paragraphs
       <<"A", "b", " ", "a", "B", "\n", "b">> >>

\* GetTOC: the chapter titles (models.Chapter.Title), the second one empty
ChapterTitles == << <<"A">>, <<>> >>

NumChapters == Len(ChapterTexts)

\* the chapter list GetTOC returns
ServerTOC == [i \in 1..NumChapters |-> [index |-> i - 1, title |-> ChapterTitles[i]]]

\* what GetPosition can return without error: no position, or a stored one
NoPosition == [chapter |-> -1, position |-> <<0, 1>>]
StoredPositions == {[chapter |-> 1, position |-> <<1, 2>>]}

\* the terminal sizes a tea.WindowSizeMsg can carry
Sizes == {<<44, 6>>}

\* the characters a key press can add to the search query
QueryChars == {"a", "c", "q", "?"}

-----------------------------------------------------------------------------
(* Messages and commands *)

NoErr == "nil"

Cmd(type, book, chapter, n) == [type |-> type, book |-> book, chapter |-> chapter, n |-> n]

\* a handler's result: the view and the commands it returns
R(view, cmds) == [v |-> view, cmd |-> cmds]

-----------------------------------------------------------------------------
(* ReaderView *)

\* NewReaderView: every field not listed there has Go's zero value
NewReaderView ==
    [ book |-> NoBook, chapters |-> <<>>, chapter |-> 0,
      content |-> <<>>, lines |-> <<>>, lineOffset |-> 0,
      loading |-> FALSE, err |-> NoErr, showTOC |-> FALSE, tocCursor |-> 0,
      textScale |-> DefaultTextScale,
      pendingPosition |-> <<0, 1>>, hasPendingPos |-> FALSE,
      showBookmarks |-> FALSE, bookmarkCursor |-> 0, bookmarkMsg |-> "",
      searchMode |-> FALSE, searchQuery |-> <<>>, searchMatches |-> <<>>,
      currentMatch |-> 0, searchActive |-> FALSE,
      continuousMode |-> FALSE, allChapterContent |-> <<>>,
      chapterBoundaries |-> <<>>,
      width |-> InitWidth, height |-> InitHeight ]

SetBook(w, book) ==
    [w EXCEPT !.book = book, !.chapter = 0, !.lineOffset = 0, !.chapters = <<>>,
              !.content = <<>>, !.lines = <<>>, !.showTOC = FALSE,
              !.pendingPosition = <<0, 1>>, !.hasPendingPos = FALSE]

visibleLines(w) ==
    LET lines == w.height - Chrome
    IN  IF lines < 1 THEN 1 ELSE lines

wrapContent(w) ==
    [w EXCEPT !.lines = WrapText(w.content, ScaledWidth(w.width, w.textScale))]

scroll(w, delta) ==
    LET moved == w.lineOffset + delta
        low == IF moved < 0 THEN 0 ELSE moved
        maxOffset == max(0, Len(w.lines) - visibleLines(w))
    IN  [w EXCEPT !.lineOffset = IF low > maxOffset THEN maxOffset ELSE low]

\* reading progress as a percentage
calculateProgress(w) ==
    IF Len(w.lines) = 0 THEN 0
    ELSE IF w.lineOffset + visibleLines(w) >= Len(w.lines) THEN 100
    ELSE GoDiv(w.lineOffset * 100, Len(w.lines))

\* what the float64 arithmetic of calculateBookProgress loses against exact
\* arithmetic: with n chapters, for these (n, chapter, progress) the sum
\* float64(chapter)*(100.0/n) + float64(progress)/100.0*(100.0/n) falls just
\* below an integer and int() truncates it to the integer below (n <= 2)
FloatShortfall(n, chapter, progress) ==
    IF <<n, chapter, progress>> \in
          {<<1, 0, 29>>, <<1, 0, 57>>, <<1, 0, 58>>, <<2, 0, 58>>}
    THEN 1 ELSE 0

\* overall progress through the book as a percentage
calculateBookProgress(w) ==
    IF Len(w.chapters) = 0 THEN 0
    ELSE GoDiv(w.chapter * 100 + calculateProgress(w), Len(w.chapters))
            - FloatShortfall(Len(w.chapters), w.chapter, calculateProgress(w))

\* the client.SavePosition call savePosition makes (none without a book)
savePosition(w) ==
    IF w.book = NoBook THEN <<>>
    ELSE << [book |-> w.book, chapter |-> w.chapter,
             position |-> <<w.lineOffset, max(1, Len(w.lines))>>] >>

\* a faulty exit: the view is left without a save
ExitWithoutSave(w) == <<>>

SavePositionOnExit(w) == savePosition(w)

loadTOC(w) == Cmd("toc", w.book, -1, 0)

loadPosition(w) == Cmd("position", w.book, -1, 0)

loadChapter(w, chapter) ==
    R([w EXCEPT !.loading = TRUE], <<Cmd("chapter", w.book, chapter, 0)>>)

\* `go v.savePosition()` is the command "save": it reads the view when it runs.
\* The command is labelled with the chapter current when it was started
goToChapter(w, chapter) ==
    LET r == loadChapter([w EXCEPT !.lineOffset = 0], chapter)
    IN  R(r.v, <<Cmd("save", w.book, w.chapter, 0)>> \o r.cmd)

\* ReaderView.Init
ReaderInit(w) ==
    IF w.book = NoBook THEN R(w, <<>>)
    ELSE R([w EXCEPT !.loading = TRUE], <<loadTOC(w), loadPosition(w)>>)

-----------------------------------------------------------------------------
(* Completion handlers *)

\* int(v.pendingPosition * float64(len(v.lines))), on the exact fraction
PendingOffset(w) == GoDiv(w.pendingPosition[1] * Len(w.lines), w.pendingPosition[2])

restorePendingPosition(w) ==
    IF ~w.hasPendingPos \/ Len(w.lines) = 0 THEN w
    ELSE LET maxOffset == max(0, Len(w.lines) - visibleLines(w))
             off == PendingOffset(w)
             high == IF off > maxOffset THEN maxOffset ELSE off
         IN  [w EXCEPT !.lineOffset = IF high < 0 THEN 0 ELSE high,
                       !.hasPendingPos = FALSE]

\* a faulty handler: the message's content is stored before its error is read
ChapterLoadedDropsContent(w, msg) ==
    R([w EXCEPT !.loading = FALSE, !.content = msg.content, !.lines = <<>>,
                !.err = msg.err], <<>>)

\* msg: [content, chapter, err]
handleChapterLoaded(w, msg) ==
    LET w1 == [w EXCEPT !.loading = FALSE] IN
    IF msg.err # NoErr THEN R([w1 EXCEPT !.err = msg.err], <<>>)
    ELSE LET w2 == wrapContent([w1 EXCEPT !.content = msg.content,
                                          !.chapter = msg.chapter])
         IN  R(restorePendingPosition([w2 EXCEPT !.err = NoErr]), <<>>)

\* msg: [chapters, err]
handleTOCLoaded(w, msg) ==
    IF msg.err # NoErr THEN R([w EXCEPT !.err = msg.err, !.loading = FALSE], <<>>)
    ELSE LET w1 == [w EXCEPT !.chapters = msg.chapters] IN
         IF w1.content = <<>> /\ Len(w1.chapters) > 0
         THEN loadChapter(w1, w1.chapter)
         ELSE R(w1, <<>>)

\* msg: [position, err]; position is NoPosition for a nil *ReadingPosition
handlePositionLoaded(w, msg) ==
    LET chapterNum == msg.position.chapter
        w1 == IF /\ msg.err = NoErr
                 /\ msg.position # NoPosition
                 /\ chapterNum >= 0
                 /\ (Len(w.chapters) = 0 \/ chapterNum < Len(w.chapters))
              THEN [w EXCEPT !.chapter = chapterNum,
                             !.pendingPosition = msg.position.position,
                             !.hasPendingPos = TRUE]
              ELSE w
    IN  loadChapter(w1, w1.chapter)

-----------------------------------------------------------------------------
(* Continuous mode *)

Digit(n) == <<"0", "1", "2", "3", "4", "5", "6", "7", "8", "9">>[n + 1]

\* fmt.Sprintf("Chapter %d", n), for n < 10
ChapterN(n) == <<"C", "h", "a", "p", "t", "e", "r", " ", Digit(n)>>

\* the header line of a chapter in the stitched sequence
HeaderLine(w, index) ==
    LET title == IF index < Len(w.chapters) THEN w.chapters[index + 1].title ELSE <<>>
        chapterTitle == IF title = <<>> THEN ChapterN(index + 1) ELSE title
    IN  <<"-", "-", "-", " ">> \o chapterTitle \o <<" ", "-", "-", "-">>

\* the chapter loop that records a chapter's boundary after its header lines
RECURSIVE StitchFromBelowHeader(_, _, _, _, _)
StitchFromBelowHeader(w, chapters, maxWidth, all, bounds) ==
    IF chapters = <<>> THEN [all |-> all, bounds |-> bounds]
    ELSE LET ch == Head(chapters)
             b == [chapterIndex |-> ch.index, lineStart |-> Len(all) + 3]
             body == << <<>>, HeaderLine(w, ch.index), <<>> >>
                         \o WrapText(ch.content, maxWidth)
         IN  StitchFromBelowHeader(w, Tail(chapters), maxWidth, all \o body,
                                   Append(bounds, b))

\* the chapter loop of buildContinuousContent: all is allChapterContent so far,
\* bounds the boundaries so far
RECURSIVE StitchFrom(_, _, _, _, _)
StitchFrom(w, chapters, maxWidth, all, bounds) ==
    IF chapters = <<>> THEN [all |-> all, bounds |-> bounds]
    ELSE LET ch == Head(chapters)
             b == [chapterIndex |-> ch.index, lineStart |-> Len(all)]
             body == << <<>>, HeaderLine(w, ch.index), <<>> >>
                         \o WrapText(ch.content, maxWidth)
         IN  StitchFrom(w, Tail(chapters), maxWidth, all \o body, Append(bounds, b))

\* chapters: sequence of [index, content]
buildContinuousContent(w, chapters) ==
    LET st == StitchFrom(w, chapters, ScaledWidth(w.width, w.textScale), <<>>, <<>>)
    IN  [w EXCEPT !.allChapterContent = st.all,
                  !.chapterBoundaries = st.bounds,
                  !.lines = st.all,
                  !.lineOffset = IF w.chapter < Len(st.bounds)
                                 THEN st.bounds[w.chapter + 1].lineStart
                                 ELSE 0]

\* msg: [chapters, err]
handleAllChaptersLoaded(w, msg) ==
    LET w1 == [w EXCEPT !.loading = FALSE] IN
    IF msg.err # NoErr THEN R([w1 EXCEPT !.err = msg.err], <<>>)
    ELSE R([buildContinuousContent(w1, msg.chapters) EXCEPT !.err = NoErr], <<>>)

\* the downward scan of getCurrentChapterFromLine from boundary i (0-based)
RECURSIVE ScanBoundaries(_, _, _)
ScanBoundaries(bounds, i, lineIdx) ==
    IF i < 0 THEN 0
    ELSE IF lineIdx >= bounds[i + 1].lineStart THEN bounds[i + 1].chapterIndex
    ELSE ScanBoundaries(bounds, i - 1, lineIdx)

getCurrentChapterFromLine(w, lineIdx) ==
    IF ~w.continuousMode \/ Len(w.chapterBoundaries) = 0 THEN w.chapter
    ELSE ScanBoundaries(w.chapterBoundaries, Len(w.chapterBoundaries) - 1, lineIdx)

clearSearch(w) ==
    [w EXCEPT !.searchActive = FALSE, !.searchQuery = <<>>,
              !.searchMatches = <<>>, !.currentMatch = -1]

loadAllChapters(w) == Cmd("all", w.book, -1, Len(w.chapters))

\* a mode switch that keeps the search state
ToggleKeepsSearch(w) ==
    LET w1 == [w EXCEPT !.continuousMode = ~w.continuousMode] IN
    IF w1.continuousMode
    THEN R([w1 EXCEPT !.loading = TRUE], <<loadAllChapters(w1)>>)
    ELSE LET currentChapter == getCurrentChapterFromLine(w1, w1.lineOffset)
             w2 == [w1 EXCEPT !.chapter = currentChapter,
                              !.allChapterContent = <<>>,
                              !.chapterBoundaries = <<>>]
         IN  loadChapter(w2, w2.chapter)

toggleContinuousMode(w) ==
    LET w1 == clearSearch([w EXCEPT !.continuousMode = ~w.continuousMode]) IN
    IF w1.continuousMode
    THEN R([w1 EXCEPT !.loading = TRUE], <<loadAllChapters(w1)>>)
    ELSE LET currentChapter == getCurrentChapterFromLine(w1, w1.lineOffset)
             w2 == [w1 EXCEPT !.chapter = currentChapter,
                              !.allChapterContent = <<>>,
                              !.chapterBoundaries = <<>>]
         IN  loadChapter(w2, w2.chapter)

-----------------------------------------------------------------------------
(* Text scale and size *)

\* the text scale set with the viewport sent back to the first line
SetTextScaleResetsOffset(w, scale) ==
    LET low == IF scale < MinTextScale THEN MinTextScale ELSE scale
        s == IF low > MaxTextScale THEN MaxTextScale ELSE low
    IN  IF s = w.textScale THEN w
        ELSE LET w1 == [w EXCEPT !.textScale = s, !.lineOffset = 0]
             IN  IF w1.content # <<>> THEN wrapContent(w1) ELSE w1

\* the text scale set without the upper clamp
SetTextScaleNoCeiling(w, scale) ==
    LET s == IF scale < MinTextScale THEN MinTextScale ELSE scale
    IN  IF s = w.textScale THEN w
        ELSE LET w1 == [w EXCEPT !.textScale = s]
             IN  IF w1.content # <<>> THEN wrapContent(w1) ELSE w1

setTextScale(w, scale) ==
    LET low == IF scale < MinTextScale THEN MinTextScale ELSE scale
        s == IF low > MaxTextScale THEN MaxTextScale ELSE low
    IN  IF s = w.textScale THEN w
        ELSE LET w1 == [w EXCEPT !.textScale = s]
             IN  IF w1.content # <<>> THEN wrapContent(w1) ELSE w1

adjustTextScale(w, delta) == setTextScale(w, w.textScale + delta)

SetSize(w, width, height) ==
    LET w1 == [w EXCEPT !.width = width, !.height = height]
    IN  IF w1.content # <<>> THEN wrapContent(w1) ELSE w1

-----------------------------------------------------------------------------
(* Search *)

\* strings.Index(s, q): the 0-based index of the first occurrence, or -1
Index(s, q) ==
    LET hits == {i \in 0..(Len(s) - Len(q)) : SubSeq(s, i + 1, i + Len(q)) = q}
    IN  IF hits = {} THEN -1
        ELSE CHOOSE i \in hits : \A j \in hits : i <= j

\* the inner loop that resumes after the end of a match, so that it finds
\* no occurrence overlapping the previous one
RECURSIVE LineMatchesDisjoint(_, _, _, _, _)
LineMatchesDisjoint(lineLower, query, qlen, lineIdx, offset) ==
    LET idx == Index(SubSeq(lineLower, offset + 1, Len(lineLower)), query) IN
    IF idx = -1 THEN <<>>
    ELSE << [lineIndex |-> lineIdx, startOffset |-> offset + idx,
             endOffset |-> offset + idx + qlen] >>
         \o LineMatchesDisjoint(lineLower, query, qlen, lineIdx, offset + idx + qlen)

\* the inner loop of executeSearch on one line, from `offset`
RECURSIVE LineMatches(_, _, _, _, _)
LineMatches(lineLower, query, qlen, lineIdx, offset) ==
    LET idx == Index(SubSeq(lineLower, offset + 1, Len(lineLower)), query) IN
    IF idx = -1 THEN <<>>
    ELSE << [lineIndex |-> lineIdx, startOffset |-> offset + idx,
             endOffset |-> offset + idx + qlen] >>
         \o LineMatches(lineLower, query, qlen, lineIdx, offset + idx + 1)

\* the outer loop of executeSearch, from line lineIdx (0-based)
RECURSIVE AllMatches(_, _, _, _)
AllMatches(lines, query, qlen, lineIdx) ==
    IF lineIdx >= Len(lines) THEN <<>>
    ELSE LineMatches(ToLower(lines[lineIdx + 1]), query, qlen, lineIdx, 0)
         \o AllMatches(lines, query, qlen, lineIdx + 1)

\* the scroll that, for a match below the window, stops one line short
ScrollToMatchShort(w, matchIdx) ==
    IF matchIdx < 0 \/ matchIdx >= Len(w.searchMatches) THEN w
    ELSE LET match == w.searchMatches[matchIdx + 1]
             up == IF match.lineIndex < w.lineOffset THEN match.lineIndex
                   ELSE w.lineOffset
         IN  [w EXCEPT !.lineOffset =
                  IF match.lineIndex >= up + visibleLines(w)
                  THEN match.lineIndex - visibleLines(w)
                  ELSE up]

scrollToMatch(w, matchIdx) ==
    IF matchIdx < 0 \/ matchIdx >= Len(w.searchMatches) THEN w
    ELSE LET match == w.searchMatches[matchIdx + 1]
             up == IF match.lineIndex < w.lineOffset THEN match.lineIndex
                   ELSE w.lineOffset
         IN  [w EXCEPT !.lineOffset =
                  IF match.lineIndex >= up + visibleLines(w)
                  THEN match.lineIndex - visibleLines(w) + 1
                  ELSE up]

executeSearch(w) ==
    LET w1 == [w EXCEPT !.searchMatches = <<>>, !.currentMatch = -1,
                        !.searchActive = FALSE]
    IN  IF w1.searchQuery = <<>> \/ Len(w1.lines) = 0 THEN w1
        ELSE LET found == AllMatches(w1.lines, ToLower(w1.searchQuery),
                                     Len(w1.searchQuery), 0)
                 w2 == [w1 EXCEPT !.searchMatches = found]
             IN  IF Len(found) > 0
                 THEN scrollToMatch([w2 EXCEPT !.searchActive = TRUE,
                                               !.currentMatch = 0], 0)
                 ELSE w2

nextMatch(w) ==
    IF Len(w.searchMatches) = 0 THEN w
    ELSE LET next == (w.currentMatch + 1) % Len(w.searchMatches)
         IN  scrollToMatch([w EXCEPT !.currentMatch = next], next)

\* the step to the previous match that stops at the first match
PrevMatchStopsAtFirst(w) ==
    IF Len(w.searchMatches) = 0 THEN w
    ELSE LET dec == w.currentMatch - 1
             prev == IF dec < 0 THEN 0 ELSE dec
         IN  scrollToMatch([w EXCEPT !.currentMatch = prev], prev)

prevMatch(w) ==
    IF Len(w.searchMatches) = 0 THEN w
    ELSE LET dec == w.currentMatch - 1
             prev == IF dec < 0 THEN Len(w.searchMatches) - 1 ELSE dec
         IN  scrollToMatch([w EXCEPT !.currentMatch = prev], prev)

\* len(msg.String()) == 1 && msg.String()[0] >= 32, on the keys of the model
IsPrintable(key) ==
    key \notin {"esc", "enter", "backspace", "ctrl+u", "ctrl+d",
                "down", "up", "home", "end"}

\* key: the key's String(); a one-character printable key is appended
updateSearchInput(w, key) ==
    CASE key = "esc" -> [w EXCEPT !.searchMode = FALSE, !.searchQuery = <<>>]
      [] key = "enter" ->
            LET w1 == [w EXCEPT !.searchMode = FALSE]
            IN  IF w1.searchQuery # <<>> THEN executeSearch(w1) ELSE w1
      [] key = "backspace" ->
            IF Len(w.searchQuery) > 0
            THEN [w EXCEPT !.searchQuery = SubSeq(w.searchQuery, 1, Len(w.searchQuery) - 1)]
            ELSE w
      [] key = "ctrl+u" -> [w EXCEPT !.searchQuery = <<>>]
      [] OTHER -> IF IsPrintable(key)
                  THEN [w EXCEPT !.searchQuery = Append(w.searchQuery, key)]
                  ELSE w

-----------------------------------------------------------------------------
(* Bookmarks.  A handler that touches config.Bookmarks returns them as bm. *)

RB(view, cmds, bm) == [v |-> view, cmd |-> cmds, bm |-> bm]

\* config.GetBookmarksForBook
RECURSIVE GetBookmarksForBook(_, _)
GetBookmarksForBook(bms, book) ==
    IF bms = <<>> THEN <<>>
    ELSE (IF Head(bms).book = book THEN <<Head(bms)>> ELSE <<>>)
         \o GetBookmarksForBook(Tail(bms), book)

getBookmarksForCurrentBook(w, bms) ==
    IF w.book = NoBook THEN <<>> ELSE GetBookmarksForBook(bms, w.book)

\* config.DeleteBookmark
RECURSIVE DeleteBookmark(_, _)
DeleteBookmark(bms, bookmarkID) ==
    IF bms = <<>> THEN <<>>
    ELSE (IF Head(bms).id = bookmarkID THEN <<>> ELSE <<Head(bms)>>)
         \o DeleteBookmark(Tail(bms), bookmarkID)

\* generateBookmarkID: a timestamp, here a number above every id in use
generateBookmarkID(bms) ==
    1 + (IF bms = <<>> THEN 0
         ELSE CHOOSE m \in {bms[i].id : i \in 1..Len(bms)} :
                  \A i \in 1..Len(bms) : bms[i].id <= m)

addBookmark(w, bms) ==
    IF w.book = NoBook THEN bms
    ELSE Append(bms, [id |-> generateBookmarkID(bms), book |-> w.book,
                      chapter |-> w.chapter,
                      position |-> <<w.lineOffset, max(1, Len(w.lines))>>])

goToBookmark(w, bookmark) ==
    loadChapter([w EXCEPT !.pendingPosition = bookmark.position,
                          !.hasPendingPos = TRUE], bookmark.chapter)

updateBookmarks(w, key, bms) ==
    LET mine == getBookmarksForCurrentBook(w, bms) IN
    CASE key \in {"esc", "b", "q"} -> RB([w EXCEPT !.showBookmarks = FALSE], <<>>, bms)
      [] key \in {"j", "down"} ->
            RB(IF w.bookmarkCursor < Len(mine) - 1
               THEN [w EXCEPT !.bookmarkCursor = w.bookmarkCursor + 1] ELSE w, <<>>, bms)
      [] key \in {"k", "up"} ->
            RB(IF w.bookmarkCursor > 0
               THEN [w EXCEPT !.bookmarkCursor = w.bookmarkCursor - 1] ELSE w, <<>>, bms)
      [] key \in {"g", "home"} -> RB([w EXCEPT !.bookmarkCursor = 0], <<>>, bms)
      [] key \in {"G", "end"} ->
            RB(IF Len(mine) > 0
               THEN [w EXCEPT !.bookmarkCursor = Len(mine) - 1] ELSE w, <<>>, bms)
      [] key = "enter" ->
            IF w.bookmarkCursor < Len(mine)
            THEN LET r == goToBookmark([w EXCEPT !.showBookmarks = FALSE],
                                       mine[w.bookmarkCursor + 1])
                 IN  RB(r.v, r.cmd, bms)
            ELSE RB(w, <<>>, bms)
      [] key = "d" ->
            IF w.bookmarkCursor < Len(mine)
            THEN RB(IF w.bookmarkCursor >= Len(mine) - 1 /\ w.bookmarkCursor > 0
                    THEN [w EXCEPT !.bookmarkCursor = w.bookmarkCursor - 1] ELSE w,
                    <<>>, DeleteBookmark(bms, mine[w.bookmarkCursor + 1].id))
            ELSE RB(w, <<>>, bms)
      [] OTHER -> RB(w, <<>>, bms)

-----------------------------------------------------------------------------
(* Key handlers *)

updateTOC(w, key) ==
    CASE key \in {"esc", "t", "q"} -> R([w EXCEPT !.showTOC = FALSE], <<>>)
      [] key \in {"j", "down"} ->
            R(IF w.tocCursor < Len(w.chapters) - 1
              THEN [w EXCEPT !.tocCursor = w.tocCursor + 1] ELSE w, <<>>)
      [] key \in {"k", "up"} ->
            R(IF w.tocCursor > 0
              THEN [w EXCEPT !.tocCursor = w.tocCursor - 1] ELSE w, <<>>)
      [] key \in {"g", "home"} -> R([w EXCEPT !.tocCursor = 0], <<>>)
      [] key \in {"G", "end"} -> R([w EXCEPT !.tocCursor = Len(w.chapters) - 1], <<>>)
      [] key = "enter" -> goToChapter([w EXCEPT !.showTOC = FALSE], w.tocCursor)
      [] OTHER -> R(w, <<>>)

handleNextAction(w) ==
    IF w.searchActive /\ Len(w.searchMatches) > 0 THEN R(nextMatch(w), <<>>)
    ELSE IF w.chapter < Len(w.chapters) - 1 THEN goToChapter(w, w.chapter + 1)
    ELSE R(w, <<>>)

handleReaderKeyMsg(w, key, bms) ==
    LET r == CASE key \in {"j", "down"} -> R(scroll(w, 1), <<>>)
               [] key \in {"k", "up"} -> R(scroll(w, -1), <<>>)
               [] key = "ctrl+d" -> R(scroll(w, GoDiv(visibleLines(w), 2)), <<>>)
               [] key = "ctrl+u" -> R(scroll(w, GoDiv(-visibleLines(w), 2)), <<>>)
               [] key \in {"g", "home"} -> R([w EXCEPT !.lineOffset = 0], <<>>)
               [] key \in {"G", "end"} ->
                     R([w EXCEPT !.lineOffset = max(0, Len(w.lines) - visibleLines(w))],
                       <<>>)
               [] key = "n" -> handleNextAction(w)
               [] key = "l" ->
                     IF w.chapter < Len(w.chapters) - 1
                     THEN goToChapter(w, w.chapter + 1) ELSE R(w, <<>>)
               [] key = "p" ->
                     IF w.chapter > 0 THEN goToChapter(w, w.chapter - 1) ELSE R(w, <<>>)
               [] key = "t" -> R([w EXCEPT !.showTOC = TRUE, !.tocCursor = w.chapter], <<>>)
               [] key = " " -> R(scroll(w, visibleLines(w) - 2), <<>>)
               [] key = "+" -> R(adjustTextScale(w, TextScaleStep), <<>>)
               [] key = "-" -> R(adjustTextScale(w, -TextScaleStep), <<>>)
               [] key = "0" -> R(setTextScale(w, DefaultTextScale), <<>>)
               [] key = "b" ->
                     R([w EXCEPT !.showBookmarks = TRUE, !.bookmarkCursor = 0], <<>>)
               [] key = "/" -> R([w EXCEPT !.searchMode = TRUE, !.searchQuery = <<>>], <<>>)
               [] key = "N" ->
                     R(IF w.searchActive /\ Len(w.searchMatches) > 0
                       THEN prevMatch(w) ELSE w, <<>>)
               [] key = "esc" -> R(IF w.searchActive THEN clearSearch(w) ELSE w, <<>>)
               [] key = "c" -> toggleContinuousMode(w)
               [] OTHER -> R(w, <<>>)
    IN  IF key = "B" /\ w.book # NoBook
        THEN RB([r.v EXCEPT !.bookmarkMsg = "Bookmark added"], r.cmd, addBookmark(w, bms))
        ELSE RB(r.v, r.cmd, bms)

\* the dispatch without the test of the bookmark list
HandleKeyMsgSkipsBookmarks(w, key, bms) ==
    IF w.showTOC THEN LET r == updateTOC(w, key) IN RB(r.v, r.cmd, bms)
    ELSE IF w.searchMode THEN RB(updateSearchInput(w, key), <<>>, bms)
    ELSE handleReaderKeyMsg(w, key, bms)

\* the dispatch of a key to the handler of the mode
handleKeyMsg(w, key, bms) ==
    IF w.showTOC THEN LET r == updateTOC(w, key) IN RB(r.v, r.cmd, bms)
    ELSE IF w.showBookmarks THEN updateBookmarks(w, key, bms)
    ELSE IF w.searchMode THEN RB(updateSearchInput(w, key), <<>>, bms)
    ELSE handleReaderKeyMsg(w, key, bms)

\* ReaderView.Update for a tea.KeyMsg: the transient message is cleared, then
\* the key is dispatched on the view w0 so cleared
Update(w, key, bms) ==
    LET cleared == [w EXCEPT !.bookmarkMsg = ""]
        dispatch == [w0 \in {cleared} |-> handleKeyMsg(w0, key, bms)]
    IN  dispatch[cleared]

-----------------------------------------------------------------------------
(* The App (src/internal/ui/app.go).  Every view other than the reader is   *)
(* "Library": it ignores the reader's messages.                            *)

\* the keys of the model: one key for each branch of the handlers
Keys == {"j", "k", "ctrl+d", "ctrl+u", "g", "G", "n", "l", "p", "t", " ",
         "+", "-", "0", "B", "b", "/", "N", "esc", "c", "enter", "backspace",
         "d", "a", "q", "?"}

\* the keys of the core session: scroll, chapter navigation, mode switch, leave
CoreKeys == {"j", "G", "l", "p", "c", "q", "esc"}

\* App.switchView: the save on leaving the reader, then the new view's Init
switchView(a, w, view) ==
    LET exit == IF a.currentView = "Reader" THEN SavePositionOnExit(w) ELSE <<>>
        a1 == [a EXCEPT !.currentView = view]
        r == IF view = "Reader" THEN ReaderInit(w) ELSE R(w, <<>>)
    IN  [app |-> a1, v |-> r.v, cmd |-> r.cmd, saved |-> exit]

\* App.handleKeyMsg and, where the key is not consumed, delegateToView
AppKey(a, w, key, bms) ==
    LET deliver(a1) ==
            LET r == Update(w, key, bms)
            IN  [app |-> a1, v |-> r.v, cmd |-> r.cmd, saved |-> <<>>, bm |-> r.bm]
        leave == LET s == switchView(a, w, "Library")
                 IN  [app |-> s.app, v |-> s.v, cmd |-> s.cmd, saved |-> s.saved,
                      bm |-> bms]
    IN  CASE key = "q" -> leave
          [] key = "?" -> deliver([a EXCEPT !.showHelp = ~a.showHelp])
          [] key = "esc" ->
                IF a.showHelp THEN deliver([a EXCEPT !.showHelp = FALSE]) ELSE leave
          [] OTHER -> deliver(a)

-----------------------------------------------------------------------------
(* The environment: commands in flight, and what the model leaves out *)

Event(type, key, chapter, ok) == [type |-> type, key |-> key, chapter |-> chapter, ok |-> ok]

RECURSIVE SeqToBag(_)
SeqToBag(cmds) ==
    IF cmds = <<>> THEN EmptyBag
    ELSE SetToBag({Head(cmds)}) (+) SeqToBag(Tail(cmds))

\* a key starts the commands `cmds` (the goroutine of "save" and the tea.Cmds);
\* the user presses no such key while MaxInFlight commands are in flight
Issue(cmds) ==
    /\ cmds # <<>> => BagCardinality(inflight) < MaxInFlight
    /\ inflight' = inflight (+) SeqToBag(cmds)

\* the command m completes: its message is handled and starts `cmds`
Complete(m, cmds) ==
    inflight' = (inflight (-) SetToBag({m})) (+) SeqToBag(cmds)

\* the inputs the model leaves out: a query longer than MaxQuery or with a
\* character outside QueryChars, more than MaxBookmarks bookmarks, a text scale
\* further than MaxZoom steps from the default
KeyInModel(w, key, bms) ==
    LET normal == ~w.showTOC /\ ~w.showBookmarks /\ ~w.searchMode
        typing == ~w.showTOC /\ ~w.showBookmarks /\ w.searchMode
    IN  /\ (typing /\ IsPrintable(key)) =>
               (key \in QueryChars /\ Len(w.searchQuery) < MaxQuery)
        /\ (normal /\ key = "B") => Len(bms) < MaxBookmarks
        /\ (normal /\ key = "+") => w.textScale + TextScaleStep <= DefaultTextScale + MaxZoom
        /\ (normal /\ key = "-") => w.textScale - TextScaleStep >= DefaultTextScale - MaxZoom

\* the chapter of the last loadChapter command among cmds, or `before`
RECURSIVE LastRequested(_, _)
LastRequested(cmds, before) ==
    IF cmds = <<>> THEN before
    ELSE LastRequested(Tail(cmds),
                       IF Head(cmds).type = "chapter" THEN Head(cmds).chapter ELSE before)

NoTrip == [chapter |-> -1, stage |-> 0]

\* the round trip paged -> continuous -> paged the session is on after event e
\* turned view w into w1.  It starts from a chapter that is shown, with no load
\* awaited: stage 1 the stitch is awaited, 2 the stitch arrived, 3 the chapter
\* is awaited again; any other key or load ends the trip
Trip(t, w, w1, e) ==
    CASE e.type = "key" ->
            IF /\ e.key = "c" /\ ~w.continuousMode /\ w1.continuousMode
               /\ ~w.loading /\ ~w.hasPendingPos /\ w.lines # <<>>
                THEN [chapter |-> w.chapter, stage |-> 1]
            ELSE IF e.key = "c" /\ w.continuousMode /\ ~w1.continuousMode /\ t.stage = 2
                THEN [t EXCEPT !.stage = 3]
            ELSE NoTrip
      [] e.type = "all" -> IF e.ok /\ t.stage = 1 THEN [t EXCEPT !.stage = 2] ELSE NoTrip
      [] e.type = "toc" -> t
      [] OTHER -> NoTrip

\* hist after a handler of the reader ran on event e: view w became r.v and r.cmd
\* started; `fresh` says that the handler stored a pending position for the
\* load it starts
Recorded(h, w, r, e, fresh) ==
    LET requested == LastRequested(r.cmd, h.requested)
    IN  [h EXCEPT !.pristine = /\ h.pristine
                                /\ e.type # "key"
                                /\ ~(e.type = "position" /\ e.ok /\ e.chapter # -1),
                  !.requested = requested,
                  !.pendingFor = IF ~r.v.hasPendingPos THEN -1
                                 ELSE IF fresh THEN requested
                                 ELSE h.pendingFor,
                  !.trip = Trip(h.trip, w, r.v, e)]

\* pristine: the session has handled no key and no stored position yet
NoHistory == [pristine |-> TRUE, requested |-> -1, pendingFor |-> -1, trip |-> NoTrip]

-----------------------------------------------------------------------------
(* Actions *)

Init ==
    /\ v = NewReaderView
    /\ app = [currentView |-> "Library", showHelp |-> FALSE]
    /\ inflight = EmptyBag
    /\ bookmarks = <<>>
    /\ ev = Event("init", "", -1, TRUE)
    /\ saved = <<>>
    /\ hist = NoHistory

\* a tea.KeyMsg while the reader is the current view
KeyMsg(key) ==
    /\ app.currentView = "Reader"
    /\ KeyInModel(v, key, bookmarks)
    /\ \E r \in {AppKey(app, v, key, bookmarks)} :
         /\ Issue(r.cmd)
         /\ v' = r.v
         /\ app' = r.app
         /\ bookmarks' = r.bm
         /\ saved' = r.saved
         /\ hist' = Recorded(hist, v, r, Event("key", key, -1, TRUE),
                              v.showBookmarks /\ ~v.showTOC /\ r.cmd # <<>>)
    /\ ev' = Event("key", key, -1, TRUE)

\* a tea.WindowSizeMsg: App.handleWindowSize resizes every view
WindowSizeMsg(size) ==
    /\ v' = SetSize(v, size[1], size[2])
    /\ ev' = Event("size", "", -1, TRUE)
    /\ saved' = <<>>
    /\ hist' = [hist EXCEPT !.trip = NoTrip]
    /\ UNCHANGED <<app, inflight, bookmarks>>

\* enter on a book of the library: the command that delivers OpenBookMsg
LibraryEnter ==
    /\ app.currentView = "Library"
    /\ BagCardinality(inflight) <= MaxStale
    /\ inflight' = inflight (+) SeqToBag(<<Cmd("open", TheBook, -1, 0)>>)
    /\ ev' = Event("enter", "", -1, TRUE)
    /\ saved' = <<>>
    /\ UNCHANGED <<v, app, bookmarks, hist>>

\* App.handleAppMsg for views.OpenBookMsg
OpenBookMsg(m) ==
    /\ m.type = "open"
    /\ \E s \in {switchView(app, SetBook(v, m.book), "Reader")} :
         /\ Complete(m, s.cmd)
         /\ v' = s.v
         /\ app' = s.app
         /\ saved' = s.saved
    /\ ev' = Event("open", "", -1, TRUE)
    /\ hist' = NoHistory
    /\ UNCHANGED bookmarks

\* a message of the reader delivered while another view is current is ignored
Ignored(m) ==
    /\ m.type \in {"toc", "position", "chapter", "all"}
    /\ app.currentView # "Reader"
    /\ Complete(m, <<>>)
    /\ ev' = Event("ignored", "", m.chapter, TRUE)
    /\ saved' = <<>>
    /\ UNCHANGED <<v, app, bookmarks, hist>>

\* the goroutine started by `go v.savePosition()` runs
SaveTask(m) ==
    /\ m.type = "save"
    /\ Complete(m, <<>>)
    /\ saved' = savePosition(v)
    /\ ev' = Event("save", "", m.chapter, TRUE)
    /\ UNCHANGED <<v, app, bookmarks, hist>>

\* ReaderView.Update for the message of command m, with result r
Handle(m, r, e, fresh) ==
    /\ app.currentView = "Reader"
    /\ Complete(m, r.cmd)
    /\ v' = r.v
    /\ ev' = e
    /\ saved' = <<>>
    /\ hist' = Recorded(hist, v, r, e, fresh)
    /\ UNCHANGED <<app, bookmarks>>

\* GetTOC answers: the chapter list, or an error
TocLoaded(m, ok) ==
    /\ m.type = "toc"
    /\ \E r \in {handleTOCLoaded(v, [chapters |-> IF ok THEN ServerTOC ELSE <<>>,
                                       err |-> IF ok THEN NoErr ELSE "error"])} :
          Handle(m, r, Event("toc", "", -1, ok), FALSE)

\* GetPosition answers: a stored position, none (nil), or an error
PositionLoaded(m, pos, ok) ==
    /\ m.type = "position"
    /\ ~ok => pos = NoPosition
    /\ \E r \in {handlePositionLoaded(v, [position |-> pos,
                                           err |-> IF ok THEN NoErr ELSE "error"])} :
           Handle(m, r, Event("position", "", pos.chapter, ok),
                  ok /\ pos # NoPosition /\ r.v.hasPendingPos /\ r.v.chapter = pos.chapter)

\* GetChapterText answers: the text of a chapter the document has, or an error
ChapterLoaded(m, ok) ==
    /\ m.type = "chapter"
    /\ ok => m.chapter \in 0..(NumChapters - 1)
    /\ \E r \in {handleChapterLoaded(v,
                     [content |-> IF ok THEN ChapterTexts[m.chapter + 1] ELSE <<>>,
                      chapter |-> m.chapter,
                      err |-> IF ok THEN NoErr ELSE "error"])} :
          Handle(m, r, Event("chapter", "", m.chapter, ok), FALSE)

\* loadAllChapters answers: the texts of chapters 0..n-1 in order, or an error.
\* The closure reads len(v.chapters) while it runs, unsynchronised with the
\* handlers: n is the length when the command was started or the length now.
\* The event records n, the number of chapters delivered, as its chapter
AllChaptersLoaded(m, ok) ==
    /\ m.type = "all"
    /\ \E n \in {m.n, Len(v.chapters)} :
         /\ ok => n <= NumChapters
         /\ \E r \in {handleAllChaptersLoaded(v,
                     [chapters |-> IF ok THEN [i \in 1..n |->
                                        [index |-> i - 1, content |-> ChapterTexts[i]]]
                                   ELSE <<>>,
                      err |-> IF ok THEN NoErr ELSE "error"])} :
              Handle(m, r, Event("all", "", IF ok THEN n ELSE -1, ok), FALSE)

\* the messages of the environment: sizes, the library, completions
Environment ==
    \/ \E size \in Sizes : WindowSizeMsg(size)
    \/ LibraryEnter
    \/ \E m \in BagToSet(inflight) : OpenBookMsg(m)
    \/ \E m \in BagToSet(inflight) : Ignored(m)
    \/ \E m \in BagToSet(inflight) : SaveTask(m)
    \/ \E m \in BagToSet(inflight), ok \in BOOLEAN : TocLoaded(m, ok)
    \/ \E m \in BagToSet(inflight), ok \in BOOLEAN,
          pos \in StoredPositions \cup {NoPosition} : PositionLoaded(m, pos, ok)
    \/ \E m \in BagToSet(inflight), ok \in BOOLEAN : ChapterLoaded(m, ok)
    \/ \E m \in BagToSet(inflight), ok \in BOOLEAN : AllChaptersLoaded(m, ok)

\* the core session: the user scrolls, changes chapter, switches mode, leaves
Next ==
    \/ \E key \in CoreKeys : KeyMsg(key)
    \/ Environment

Spec == Init /\ [][Next]_vars

\* the keys of a searching session: type a query, submit it, and the
\* operations that rebuild the line sequence (chapter, mode, text scale)
SearchKeys == {"/", "a", "enter", "l", "c", "+", "esc"}

\* the messages of a session that is opened with no command in flight
QuietEnvironment ==
    \/ \E size \in Sizes : WindowSizeMsg(size)
    \/ (inflight = EmptyBag /\ LibraryEnter)
    \/ \E m \in BagToSet(inflight) : OpenBookMsg(m)
    \/ \E m \in BagToSet(inflight) : Ignored(m)
    \/ \E m \in BagToSet(inflight) : SaveTask(m)
    \/ \E m \in BagToSet(inflight), ok \in BOOLEAN : TocLoaded(m, ok)
    \/ \E m \in BagToSet(inflight), ok \in BOOLEAN,
          pos \in StoredPositions \cup {NoPosition} : PositionLoaded(m, pos, ok)
    \/ \E m \in BagToSet(inflight), ok \in BOOLEAN : ChapterLoaded(m, ok)
    \/ \E m \in BagToSet(inflight), ok \in BOOLEAN : AllChaptersLoaded(m, ok)

\* the searching session: the user searches, zooms, changes chapter and mode
SearchNext ==
    \/ \E key \in SearchKeys : KeyMsg(key)
    \/ QuietEnvironment

SearchSpec == Init /\ [][SearchNext]_vars

\* the keys of a session with overlays: the mode switch, the table of
\* contents, the bookmark list, the search input
ModeKeys == {"c", "t", "b", "/", "a", "enter", "esc"}

\* the session with overlays: the user opens them and presses c in each
ModeNext ==
    \/ \E key \in ModeKeys : KeyMsg(key)
    \/ QuietEnvironment

ModeSpec == Init /\ [][ModeNext]_vars

\* the keys of a session that types a query: open the input, type, submit,
\* and the keys the App binds to quit, help and escape
TypingKeys == {"/", "a", "q", "?", "enter", "backspace", "esc"}

\* the typing session: no key of it starts a save or a load of all chapters
TypingNext ==
    \/ \E key \in TypingKeys : KeyMsg(key)
    \/ \E size \in Sizes : WindowSizeMsg(size)
    \/ (inflight = EmptyBag /\ LibraryEnter)
    \/ \E m \in BagToSet(inflight) : OpenBookMsg(m)
    \/ \E m \in BagToSet(inflight) : Ignored(m)
    \/ \E m \in BagToSet(inflight), ok \in BOOLEAN : TocLoaded(m, ok)
    \/ \E m \in BagToSet(inflight), ok \in BOOLEAN,
          pos \in StoredPositions \cup {NoPosition} : PositionLoaded(m, pos, ok)
    \/ \E m \in BagToSet(inflight), ok \in BOOLEAN : ChapterLoaded(m, ok)

TypingSpec == Init /\ [][TypingNext]_vars

-----------------------------------------------------------------------------
(* The user who does not wait: a key is pressed while a load is in flight *)

\* a tea.KeyMsg while the reader is the current view and fewer than
\* MaxPending commands are in flight
HastyKeyMsg(key) ==
    /\ app.currentView = "Reader"
    /\ KeyInModel(v, key, bookmarks)
    /\ \E r \in {AppKey(app, v, key, bookmarks)} :
         /\ r.cmd # <<>> => BagCardinality(inflight) < MaxPending
         /\ inflight' = inflight (+) SeqToBag(r.cmd)
         /\ v' = r.v
         /\ app' = r.app
         /\ bookmarks' = r.bm
         /\ saved' = r.saved
         /\ hist' = Recorded(hist, v, r, Event("key", key, -1, TRUE),
                              v.showBookmarks /\ ~v.showTOC /\ r.cmd # <<>>)
    /\ ev' = Event("key", key, -1, TRUE)

\* the keys of the session that switches mode and scrolls
HastyKeys == {"c", "j"}

\* the session of one book in which the mode is switched before the load
\* started by the previous switch has completed
HastyNext ==
    \/ \E key \in HastyKeys : HastyKeyMsg(key)
    \/ (inflight = EmptyBag /\ LibraryEnter)
    \/ \E m \in BagToSet(inflight) : OpenBookMsg(m)
    \/ \E m \in BagToSet(inflight), ok \in BOOLEAN : TocLoaded(m, ok)
    \/ \E m \in BagToSet(inflight), ok \in BOOLEAN,
          pos \in StoredPositions \cup {NoPosition} : PositionLoaded(m, pos, ok)
    \/ \E m \in BagToSet(inflight), ok \in BOOLEAN : ChapterLoaded(m, ok)
    \/ \E m \in BagToSet(inflight), ok \in BOOLEAN : AllChaptersLoaded(m, ok)

HastySpec == Init /\ [][HastyNext]_vars

-----------------------------------------------------------------------------
(* The whole range of the text scale *)

\* a tea.KeyMsg while the reader is the current view, with no limit on the
\* zoom steps; a key that starts a command waits for the commands in flight
ZoomKeyMsg(key) ==
    /\ app.currentView = "Reader"
    /\ \E r \in {AppKey(app, v, key, bookmarks)} :
         /\ Issue(r.cmd)
         /\ v' = r.v
         /\ app' = r.app
         /\ bookmarks' = r.bm
         /\ saved' = r.saved
         /\ hist' = Recorded(hist, v, r, Event("key", key, -1, TRUE),
                              v.showBookmarks /\ ~v.showTOC /\ r.cmd # <<>>)
    /\ ev' = Event("key", key, -1, TRUE)

\* the keys of the session that zooms: in, out, reset, and the keys that
\* scroll, change chapter and switch mode
ZoomKeys == {"+", "-", "0", "j", "l", "c"}

\* the session that zooms from the default scale to both ends of the range
ZoomNext ==
    \/ \E key \in ZoomKeys : ZoomKeyMsg(key)
    \/ \E size \in Sizes : WindowSizeMsg(size)
    \/ (inflight = EmptyBag /\ LibraryEnter)
    \/ \E m \in BagToSet(inflight) : OpenBookMsg(m)
    \/ \E m \in BagToSet(inflight) : SaveTask(m)
    \/ \E m \in BagToSet(inflight), ok \in BOOLEAN : TocLoaded(m, ok)
    \/ \E m \in BagToSet(inflight), ok \in BOOLEAN,
          pos \in StoredPositions \cup {NoPosition} : PositionLoaded(m, pos, ok)
    \/ \E m \in BagToSet(inflight), ok \in BOOLEAN : ChapterLoaded(m, ok)
    \/ \E m \in BagToSet(inflight), ok \in BOOLEAN : AllChaptersLoaded(m, ok)

ZoomSpec == Init /\ [][ZoomNext]_vars

-----------------------------------------------------------------------------
(* The opening of a book that has a stored position, with no key pressed *)

\* the terminal sizes set before the book is opened
OpenSizes == {<<44, 6>>, <<44, 7>>, <<44, 8>>, <<24, 24>>, <<25, 24>>, <<80, 24>>}

\* the opening: the terminal is sized, the book is opened, GetPosition
\* returns the stored position, every chapter fetch delivers its text, and
\* the completions are handled in any order
OpenNext ==
    \/ \E size \in OpenSizes : (app.currentView = "Library" /\ WindowSizeMsg(size))
    \/ (inflight = EmptyBag /\ LibraryEnter)
    \/ \E m \in BagToSet(inflight) : OpenBookMsg(m)
    \/ \E m \in BagToSet(inflight), ok \in BOOLEAN : TocLoaded(m, ok)
    \/ \E m \in BagToSet(inflight), pos \in StoredPositions :
          PositionLoaded(m, pos, TRUE)
    \/ \E m \in BagToSet(inflight) : ChapterLoaded(m, TRUE)

OpenSpec == Init /\ [][OpenNext]_vars

\* the keys that end the reading session: quit and escape
LeaveKeys == {"q", "esc"}

\* the first opening of the book followed by the end of the session at any
\* moment: the user neither scrolls nor navigates, and the messages that
\* arrive after the reader was left are ignored
LeaveNext ==
    \/ \E size \in OpenSizes : (app.currentView = "Library" /\ WindowSizeMsg(size))
    \/ (v.book = NoBook /\ inflight = EmptyBag /\ LibraryEnter)
    \/ \E key \in LeaveKeys : KeyMsg(key)
    \/ \E m \in BagToSet(inflight) : OpenBookMsg(m)
    \/ \E m \in BagToSet(inflight) : Ignored(m)
    \/ \E m \in BagToSet(inflight), ok \in BOOLEAN : TocLoaded(m, ok)
    \/ \E m \in BagToSet(inflight), pos \in StoredPositions :
          PositionLoaded(m, pos, TRUE)
    \/ \E m \in BagToSet(inflight) : ChapterLoaded(m, TRUE)

LeaveSpec == Init /\ [][LeaveNext]_vars

-----------------------------------------------------------------------------
(* The table of contents *)

\* the keys of the session that uses the table of contents: open it, move
\* the cursor down and to the end, select, and the next chapter
TocKeys == {"t", "j", "G", "enter", "l"}

\* the session that navigates by the table of contents
TocNext ==
    \/ \E key \in TocKeys : KeyMsg(key)
    \/ \E size \in Sizes : WindowSizeMsg(size)
    \/ (inflight = EmptyBag /\ LibraryEnter)
    \/ \E m \in BagToSet(inflight) : OpenBookMsg(m)
    \/ \E m \in BagToSet(inflight) : SaveTask(m)
    \/ \E m \in BagToSet(inflight), ok \in BOOLEAN : TocLoaded(m, ok)
    \/ \E m \in BagToSet(inflight), ok \in BOOLEAN,
          pos \in StoredPositions \cup {NoPosition} : PositionLoaded(m, pos, ok)
    \/ \E m \in BagToSet(inflight), ok \in BOOLEAN : ChapterLoaded(m, ok)

TocSpec == Init /\ [][TocNext]_vars

-----------------------------------------------------------------------------
(* The shelf: a second document is opened after the first was read *)

OtherBook == "book2"

Books == {TheBook, OtherBook}

\* enter on the selected book of the library, with no command in flight
LibraryEnterBook(book) ==
    /\ app.currentView = "Library"
    /\ inflight = EmptyBag
    /\ inflight' = inflight (+) SeqToBag(<<Cmd("open", book, -1, 0)>>)
    /\ ev' = Event("enter", "", -1, TRUE)
    /\ saved' = <<>>
    /\ UNCHANGED <<v, app, bookmarks, hist>>

\* the keys of a reader who switches mode, searches and leaves
ShelfKeys == {"c", "/", "a", "enter", "q"}

ShelfNext ==
    \/ \E key \in ShelfKeys : KeyMsg(key)
    \/ \E book \in Books : LibraryEnterBook(book)
    \/ \E m \in BagToSet(inflight) : OpenBookMsg(m)
    \/ \E m \in BagToSet(inflight) : Ignored(m)
    \/ \E m \in BagToSet(inflight), ok \in BOOLEAN : TocLoaded(m, ok)
    \/ \E m \in BagToSet(inflight), ok \in BOOLEAN,
          pos \in StoredPositions \cup {NoPosition} : PositionLoaded(m, pos, ok)
    \/ \E m \in BagToSet(inflight), ok \in BOOLEAN : ChapterLoaded(m, ok)
    \/ \E m \in BagToSet(inflight), ok \in BOOLEAN : AllChaptersLoaded(m, ok)

ShelfSpec == Init /\ [][ShelfNext]_vars

-----------------------------------------------------------------------------

(* The overlays: table of contents, bookmark list, search input *)

\* the keys that move a cursor or the viewport
CursorKeys == {"j", "k", "g", "G", "down", "up", "home", "end"}

\* a tea.KeyMsg while the reader is the current view; any key can be typed
\* into the search input, up to MaxQuery characters.  The user of this
\* session presses the cursor keys only while an overlay is shown
OverlayKeyMsg(key) ==
    /\ app.currentView = "Reader"
    /\ key \in CursorKeys => (v.showTOC \/ v.showBookmarks \/ v.searchMode)
    /\ (~v.showTOC /\ ~v.showBookmarks /\ v.searchMode /\ IsPrintable(key))
          => Len(v.searchQuery) < MaxQuery
    /\ (~v.showTOC /\ ~v.showBookmarks /\ ~v.searchMode /\ key = "B")
          => Len(bookmarks) < MaxBookmarks
    /\ \E r \in {AppKey(app, v, key, bookmarks)} :
         /\ Issue(r.cmd)
         /\ v' = r.v
         /\ app' = r.app
         /\ bookmarks' = r.bm
         /\ saved' = r.saved
         /\ hist' = Recorded(hist, v, r, Event("key", key, -1, TRUE),
                              v.showBookmarks /\ ~v.showTOC /\ r.cmd # <<>>)
    /\ ev' = Event("key", key, -1, TRUE)

\* the keys of the session with overlays: open and close each overlay, add a
\* bookmark, leave, and the cursor keys
OverlayKeys == CursorKeys \cup {"t", "b", "/", "B", "q"}

\* the terminal is sized before the book is opened; every fetch but the
\* table of contents succeeds
OverlayNext ==
    \/ \E key \in OverlayKeys : OverlayKeyMsg(key)
    \/ \E size \in Sizes : (app.currentView = "Library" /\ WindowSizeMsg(size))
    \/ (inflight = EmptyBag /\ LibraryEnter)
    \/ \E m \in BagToSet(inflight) : OpenBookMsg(m)
    \/ \E m \in BagToSet(inflight) : Ignored(m)
    \/ \E m \in BagToSet(inflight), ok \in BOOLEAN : TocLoaded(m, ok)
    \/ \E m \in BagToSet(inflight), pos \in StoredPositions : PositionLoaded(m, pos, TRUE)
    \/ \E m \in BagToSet(inflight) : ChapterLoaded(m, TRUE)

OverlaySpec == Init /\ [][OverlayNext]_vars

-----------------------------------------------------------------------------

(* The session whose fetches all complete: the reader stays open *)

\* the keys that navigate and switch mode
LiveKeys == {"c", "l", "p"}

\* the message of some command in flight is delivered and handled
Completion ==
    \E m \in BagToSet(inflight) :
        \/ OpenBookMsg(m)
        \/ SaveTask(m)
        \/ \E ok \in BOOLEAN : TocLoaded(m, ok)
        \/ \E ok \in BOOLEAN, pos \in StoredPositions \cup {NoPosition} :
              PositionLoaded(m, pos, ok)
        \/ \E ok \in BOOLEAN : ChapterLoaded(m, ok)
        \/ \E ok \in BOOLEAN : AllChaptersLoaded(m, ok)

LiveNext ==
    \/ \E key \in LiveKeys : HastyKeyMsg(key)
    \/ (inflight = EmptyBag /\ LibraryEnter)
    \/ Completion

\* Bubble Tea runs every tea.Cmd in its own goroutine and sends its message
\* to Update: a command in flight is not left waiting for ever
LiveSpec == Init /\ [][LiveNext]_vars /\ WF_vars(Completion)

-----------------------------------------------------------------------------

(* The line wrapper on its own: a chapter of any text, at any width *)

\* the words of the texts: none, 9, 10 and 21 characters
WrapVocabulary == {<<>>, Word("a", 9), Word("b", 10), Word("c", 21)}

\* what follows a word: nothing, a space, a tab and a space, a newline
WrapSeparators == {<<>>, <<" ">>, <<"\t", " ">>, <<"\n">>}

\* the texts of at most n words, each followed by a separator
RECURSIVE TextsOf(_)
TextsOf(n) ==
    IF n = 0 THEN {<<>>}
    ELSE LET shorter == TextsOf(n - 1)
         IN  shorter \cup {t \o word \o sep :
                              t \in shorter, word \in WrapVocabulary, sep \in WrapSeparators}

\* "alpha beta gamma"
AlphaBetaGamma ==
    <<"a", "l", "p", "h", "a", " ", "b", "e", "t", "a", " ", "g", "a", "m", "m", "a">>

\* the chapter texts GetChapterText can return
WrapTexts == TextsOf(MaxWords) \cup {AlphaBetaGamma}

\* terminal sizes with the wrap widths 10, 20 and 21
WrapSizes == {<<14, 24>>, <<24, 24>>, <<25, 24>>}

\* a session whose chapter 0, of any text, has just been loaded at 80x24
WrapInit ==
    /\ \E text \in WrapTexts :
          v = handleChapterLoaded(SetBook(NewReaderView, TheBook),
                                  [content |-> text, chapter |-> 0, err |-> NoErr]).v
    /\ app = [currentView |-> "Reader", showHelp |-> FALSE]
    /\ inflight = EmptyBag
    /\ bookmarks = <<>>
    /\ ev = Event("chapter", "", 0, TRUE)
    /\ saved = <<>>
    /\ hist = NoHistory

\* the terminal is resized: SetSize wraps the content again
WrapNext == \E size \in WrapSizes : WindowSizeMsg(size)

WrapSpec == WrapInit /\ [][WrapNext]_vars

-----------------------------------------------------------------------------
(* Search on its own: a chapter of any text, a query of any characters *)

\* the chapter texts searched: "aaa", "a", "b", "Ab aB" / "b", and four
\* paragraphs "aAa ab", "", "ba", "B aa"
FindTexts ==
    { <<"a", "a", "a">>,
      <<"a">>,
      <<"b">>,
      <<"A", "b", " ", "a", "B", "\n", "b">>,
      <<"a", "A", "a", " ", "a", "b", "\n", "\n", "b", "a", "\n", "B", " ", "a", "a">> }

\* the queries typed: "a", "aa", "A", "ab", "aB ", "c"
FindQueries ==
    { <<"a">>, <<"a", "a">>, <<"A">>, <<"a", "b">>, <<"a", "B", " ">>, <<"c">> }

\* terminal sizes with 1 and 2 visible lines
FindSizes == {<<44, 6>>, <<44, 7>>}

\* submit the query, step to the next and the previous match, scroll
FindKeys == {"enter", "n", "N", "j"}

\* a session whose chapter 0, of any text, is loaded at 80x24 and whose search
\* input holds a query
FindInit ==
    /\ \E text \in FindTexts, query \in FindQueries :
          v = [handleChapterLoaded(SetBook(NewReaderView, TheBook),
                                   [content |-> text, chapter |-> 0, err |-> NoErr]).v
                  EXCEPT !.searchMode = TRUE, !.searchQuery = query]
    /\ app = [currentView |-> "Reader", showHelp |-> FALSE]
    /\ inflight = EmptyBag
    /\ bookmarks = <<>>
    /\ ev = Event("key", "a", -1, TRUE)
    /\ saved = <<>>
    /\ hist = [NoHistory EXCEPT !.pristine = FALSE]

FindNext ==
    \/ \E key \in FindKeys : KeyMsg(key)
    \/ \E size \in FindSizes : WindowSizeMsg(size)

FindSpec == FindInit /\ [][FindNext]_vars

-----------------------------------------------------------------------------
(* Properties of the reading session *)

\* C1: in every reachable state the viewport offset lies between 0 and
\* max(0, lineCount - visibleLines)
C1_OffsetInRange ==
    /\ 0 <= v.lineOffset
    /\ v.lineOffset <= max(0, Len(v.lines) - visibleLines(v))

\* C2: a successful chapter completion for a chapter other than the one most
\* recently requested leaves content, lines, chapter and offset as they were
C2_StaleCompletionDiscarded ==
    [][(ev'.type = "chapter" /\ ev'.ok /\ ev'.chapter # hist.requested)
          => /\ v'.content = v.content
             /\ v'.lines = v.lines
             /\ v'.chapter = v.chapter
             /\ v'.lineOffset = v.lineOffset]_vars

\* C3: a pending position is consumed only by the successful completion of the
\* load of the chapter it was issued with
C3_PendingConsumedByItsLoad ==
    [][(v.hasPendingPos /\ ~v'.hasPendingPos /\ ev'.type # "open")
          => (ev'.type = "chapter" /\ ev'.ok /\ ev'.chapter = hist.pendingFor)]_vars

\* C4: every step that ends the session (App.switchView runs while the reader is
\* the current view: quit, escape, or another book opened) makes exactly one
\* SavePosition call
C4_OneSavePerSessionEnd ==
    [][(app.currentView = "Reader" /\ (app'.currentView # "Reader" \/ ev'.type = "open"))
          => Len(saved') = 1]_vars

\* C4 witness: the reader was left by escape without a scroll, and one save of
\* offset 0 was made
C4_Witness ==
    /\ app.currentView = "Library"
    /\ ev.type = "key" /\ ev.key = "esc"
    /\ Len(saved) = 1
    /\ saved[1].position[1] = 0
    /\ v.lines # <<>>

\* C5: the save made when the reader is left with content loaded has the
\* arguments (book, c, ToFraction(offset, visibleLines, lineCount)), c being
\* the current chapter in paged mode and the chapter owning the offset in
\* continuous mode; the fraction is 1 when the last page is visible
C5_ExitSaveArguments ==
    [][(app.currentView = "Reader" /\ app'.currentView = "Library" /\ v.lines # <<>>)
          => LET c == IF v.continuousMode
                          THEN getCurrentChapterFromLine(v, v.lineOffset)
                          ELSE v.chapter
                 f == IF v.lineOffset + visibleLines(v) >= Len(v.lines)
                          THEN <<1, 1>>
                          ELSE <<v.lineOffset, Len(v.lines)>>
             IN  /\ Len(saved') = 1
                 /\ saved'[1].book = v.book
                 /\ saved'[1].chapter = c
                 /\ saved'[1].position[1] * f[2] = f[1] * saved'[1].position[2]]_vars

\* C6: a chapter load or a load of all chapters that completes with an error
\* records the error and leaves content, lines, boundaries and chapter alone
C6_ErrorKeepsContent ==
    [][(ev'.type \in {"chapter", "all"} /\ ~ev'.ok)
          => /\ v'.err # NoErr
             /\ v'.content = v.content
             /\ v'.lines = v.lines
             /\ v'.chapterBoundaries = v.chapterBoundaries
             /\ v'.allChapterContent = v.allChapterContent
             /\ v'.chapter = v.chapter]_vars

\* C6 witness: a chapter load failed while content was shown, and the content
\* is still there beside the error
C6_Witness ==
    /\ ev.type = "chapter" /\ ~ev.ok
    /\ v.err # NoErr
    /\ v.content # <<>> /\ v.lines # <<>>

\* C7: after a successful chapter completion the offset is 0 when no pending
\* position was set, and floor(f * lineCount) clamped when f was pending
C7_OffsetAfterLoad ==
    [][(ev'.type = "chapter" /\ ev'.ok)
          => LET n == Len(v'.lines)
                 f == v.pendingPosition
             IN  v'.lineOffset =
                    IF v.hasPendingPos
                        THEN max(0, min(GoDiv(f[1] * n, f[2]), max(0, n - visibleLines(v'))))
                        ELSE 0]_vars

\* C8: in a session that has handled no key and no stored position, a position
\* load that returns not-found or an error makes the session request chapter 0,
\* with no pending position and no error recorded
C8_NoPositionOpensChapterZero ==
    [][(ev'.type = "position" /\ (~ev'.ok \/ ev'.chapter = -1) /\ hist.pristine)
          => (hist'.requested = 0 /\ ~v'.hasPendingPos /\ v'.err = v.err)]_vars

\* C9: the switch from continuous to paged mode at offset o requests and opens
\* the chapter whose boundary has the greatest first line <= o
C9_SwitchOpensChapterAtOffset ==
    [][(ev'.type = "key" /\ v.continuousMode /\ ~v'.continuousMode)
          => LET c == getCurrentChapterFromLine(v, v.lineOffset)
             IN  hist'.requested = c /\ v'.chapter = c]_vars

\* C10: paged at chapter c, to continuous, stitch arrived, back to paged with no
\* other key: the chapter completion leaves the session at chapter c, offset 0
C10_RoundTripRestoresChapter ==
    [][(hist.trip.stage = 3 /\ ev'.type = "chapter" /\ ev'.ok
            /\ ev'.chapter = hist.requested)
          => (v'.chapter = hist.trip.chapter /\ v'.lineOffset = 0)]_vars

\* C11: when the switch to continuous mode completes (the stitch arrives with no
\* other key or load since the switch), the stitched sequence holds every chapter
\* of the document in chapter order and the offset is the first line of the
\* boundary of the chapter that was current immediately before the switch
C11_SwitchCompletesAtChapterStart ==
    [][(ev'.type = "all" /\ ev'.ok /\ hist.trip.stage = 1)
          => /\ Len(v'.chapterBoundaries) = NumChapters
             /\ \A i \in 1..Len(v'.chapterBoundaries) :
                    v'.chapterBoundaries[i].chapterIndex = i - 1
             /\ v'.lines = v'.allChapterContent
             /\ hist.trip.chapter < Len(v'.chapterBoundaries)
             /\ v'.lineOffset = v'.chapterBoundaries[hist.trip.chapter + 1].lineStart]_vars

-----------------------------------------------------------------------------
(* Properties of search and of the rebuilds of the line sequence *)

\* C12: in every reachable state every search match (line, start, end) refers
\* to the current line sequence: 0 <= line < lineCount and
\* 0 <= start < end <= length of that line
C12_MatchesReferToLines ==
    \A i \in 1..Len(v.searchMatches) :
        LET match == v.searchMatches[i] IN
        /\ 0 <= match.lineIndex /\ match.lineIndex < Len(v.lines)
        /\ 0 <= match.startOffset /\ match.startOffset < match.endOffset
        /\ match.endOffset <= Len(v.lines[match.lineIndex + 1])

\* C13: every rebuild of the line sequence (a chapter completion that replaces
\* the lines, a re-wrap after a change of text scale or of size, a mode switch)
\* leaves the search state empty: no query, no matches, current match -1,
\* search inactive
C13_RebuildClearsSearch ==
    [][(\/ ev'.type = "chapter" /\ ev'.ok
        \/ ev'.type = "size" /\ v.content # <<>>
        \/ ev'.type = "key" /\ v'.textScale # v.textScale /\ v.content # <<>>
        \/ ev'.type = "key" /\ v'.continuousMode # v.continuousMode)
          => /\ v'.searchQuery = <<>>
             /\ v'.searchMatches = <<>>
             /\ v'.currentMatch = -1
             /\ ~v'.searchActive]_vars

\* C14: while continuous mode is on and the chapters are stitched, a change of
\* the wrap width (by the text scale or by a resize) re-stitches the same
\* chapters at the new width and recomputes the boundary table
C14_WidthChangeRestitches ==
    [][(/\ v.continuousMode /\ v'.continuousMode
        /\ v.chapterBoundaries # <<>>
        /\ ev'.type \in {"size", "key"}
        /\ ScaledWidth(v'.width, v'.textScale) # ScaledWidth(v.width, v.textScale))
          => LET stitched == [i \in 1..Len(v.chapterBoundaries) |->
                                 [index |-> v.chapterBoundaries[i].chapterIndex,
                                  content |-> ChapterTexts[v.chapterBoundaries[i].chapterIndex + 1]]]
                 st == StitchFrom(v', stitched, ScaledWidth(v'.width, v'.textScale),
                                  <<>>, <<>>)
             IN  /\ v'.lines = st.all
                 /\ v'.chapterBoundaries = st.bounds]_vars

\* C15: the mode switches only on a key pressed while no overlay (table of
\* contents, bookmark list, search input) is open, and immediately after the
\* switch the search state is cleared and the loading indicator is set
C15_SwitchOnlyFromNormal ==
    [][(v'.continuousMode # v.continuousMode)
          => /\ ev'.type = "key"
             /\ ~v.showTOC /\ ~v.showBookmarks /\ ~v.searchMode
             /\ ~v'.showTOC /\ ~v'.showBookmarks /\ ~v'.searchMode
             /\ v'.searchQuery = <<>>
             /\ v'.searchMatches = <<>>
             /\ v'.currentMatch = -1
             /\ ~v'.searchActive
             /\ v'.loading]_vars

\* C15 witness: the session is back in paged mode by key c, the stitch is
\* dropped, the chapter is being loaded and no search is left
C15_Witness ==
    /\ ev.type = "key" /\ ev.key = "c"
    /\ app.currentView = "Reader"
    /\ ~v.continuousMode
    /\ v.chapterBoundaries = <<>>
    /\ v.lines # <<>>
    /\ v.loading
    /\ ~v.searchActive /\ v.searchMatches = <<>> /\ v.currentMatch = -1

\* C16: a key pressed while a query is typed (search input open) leaves the
\* reader the current view and ends no session (no exit save); the mode after
\* it is the search input or Normal, and it is Normal only after escape or enter
C16_TypingKeepsSession ==
    [][(/\ ev'.type = "key"
        /\ app.currentView = "Reader"
        /\ v.searchMode /\ ~v.showTOC /\ ~v.showBookmarks)
          => /\ app'.currentView = "Reader"
             /\ saved' = <<>>
             /\ v'.book = v.book
             /\ ~v'.showTOC /\ ~v'.showBookmarks
             /\ ~v'.searchMode => ev'.key \in {"esc", "enter"}]_vars

-----------------------------------------------------------------------------
(* Properties of the background tasks *)

\* C17: the position a background save stores is determined by the state at
\* the moment the save was started: the chapter that was current then, at the
\* offset 0 goToChapter had just set, whatever the event loop did since
C17_SaveUsesStateAtIssue ==
    [][(ev'.type = "save")
          => /\ Len(saved') = 1
             /\ saved'[1].chapter = ev'.chapter
             /\ saved'[1].position[1] = 0]_vars

-----------------------------------------------------------------------------
(* Properties of the line wrapper *)

\* C18: at a wrap width W >= 20 every line of the wrapped text is at most W
\* characters long, except a line that is exactly one word of the text longer
\* than W (the word is not split and has the line to itself)
C18_LinesFitWidth ==
    LET W == ScaledWidth(v.width, v.textScale)
        paragraphs == SplitLines(v.content)
        words == UNION {{Fields(paragraphs[p])[k] : k \in 1..Len(Fields(paragraphs[p]))} :
                           p \in 1..Len(paragraphs)}
    IN  W >= 20 =>
            \A i \in 1..Len(v.lines) :
                \/ Len(v.lines[i]) <= W
                \/ /\ v.lines[i] \in words
                   /\ \A k \in 1..Len(v.lines[i]) : ~IsSpace(v.lines[i][k])

\* C18 witness: at width 20 the text has a line of a word of 21 characters and a
\* line of two words that is exactly 20 characters long
C18_Witness ==
    /\ ScaledWidth(v.width, v.textScale) = 20
    /\ \E i \in 1..Len(v.lines) : v.lines[i] = Word("c", 21)
    /\ \E i \in 1..Len(v.lines) :
          v.lines[i] = Word("a", 9) \o <<" ">> \o Word("b", 10)

\* C19: the wrapped text is the greedy wrap of the text: paragraph by paragraph,
\* each line is the longest run of the next words that, joined by single
\* spaces, is at most W long (one word when not even two fit), so that a word
\* starts a new line exactly when currentLength + 1 + wordLength > W; no word is
\* lost, repeated or reordered.  "alpha beta gamma" at width 10 gives
\* "alpha beta", "gamma"
C19_WrapIsGreedy ==
    LET W == ScaledWidth(v.width, v.textScale)
        RECURSIVE Join(_)
        Join(ws) == IF Len(ws) = 1 THEN ws[1]
                    ELSE ws[1] \o <<" ">> \o Join(Tail(ws))
        Fits(ws, k) == k = 1 \/ Len(Join(SubSeq(ws, 1, k))) <= W
        RECURSIVE Greedy(_)
        Greedy(ws) ==
            IF ws = <<>> THEN <<>>
            ELSE LET k == CHOOSE n \in 1..Len(ws) :
                              /\ Fits(ws, n)
                              /\ n < Len(ws) => ~Fits(ws, n + 1)
                 IN  <<Join(SubSeq(ws, 1, k))>> \o Greedy(SubSeq(ws, k + 1, Len(ws)))
        RECURSIVE Reference(_)
        Reference(paragraphs) ==
            IF paragraphs = <<>> THEN <<>>
            ELSE (IF Fields(Head(paragraphs)) = <<>> THEN << <<>> >>
                  ELSE Greedy(Fields(Head(paragraphs))))
                 \o Reference(Tail(paragraphs))
    IN  /\ v.lines = Reference(SplitLines(v.content))
        /\ (v.content = AlphaBetaGamma /\ W = 10)
              => v.lines = << <<"a", "l", "p", "h", "a", " ", "b", "e", "t", "a">>,
                              <<"g", "a", "m", "m", "a">> >>

\* C19 witness: "alpha beta gamma" wrapped at width 10 is "alpha beta", "gamma"
C19_Witness ==
    /\ v.content = AlphaBetaGamma
    /\ ScaledWidth(v.width, v.textScale) = 10
    /\ Len(v.lines) = 2
    /\ v.lines[1] = SubSeq(AlphaBetaGamma, 1, 10)
    /\ v.lines[2] = SubSeq(AlphaBetaGamma, 12, 16)

\* C20: the wrapped text has as many empty lines as the text has blank
\* paragraphs (empty or of spaces only), at the same places between the
\* paragraphs of words: with every run of paragraphs of words and every run of
\* non-empty lines taken as one, lines and paragraphs are blank at the same places
C20_BlankLinesPreserved ==
    LET paragraphs == SplitLines(v.content)
        blankParagraph == [p \in 1..Len(paragraphs) |->
                              \A k \in 1..Len(paragraphs[p]) : IsSpace(paragraphs[p][k])]
        emptyLine == [i \in 1..Len(v.lines) |-> v.lines[i] = <<>>]
        \* a sequence of booleans with every run of FALSE reduced to one FALSE
        RECURSIVE Collapse(_)
        Collapse(blanks) ==
            IF Len(blanks) <= 1 THEN blanks
            ELSE IF ~blanks[1] /\ ~blanks[2] THEN Collapse(Tail(blanks))
            ELSE <<blanks[1]>> \o Collapse(Tail(blanks))
    IN  /\ Cardinality({i \in 1..Len(v.lines) : emptyLine[i]})
               = Cardinality({p \in 1..Len(paragraphs) : blankParagraph[p]})
        /\ Collapse(emptyLine) = Collapse(blankParagraph)

\* C20 witness: an empty paragraph, a paragraph of one word and a paragraph of
\* a tab and a space: two empty lines around the line of the word
C20_Witness ==
    /\ v.content = <<"\n">> \o Word("c", 21) \o <<"\n", "\t", " ">>
    /\ ScaledWidth(v.width, v.textScale) = 20
    /\ v.lines = << <<>>, Word("c", 21), <<>> >>

-----------------------------------------------------------------------------
(* Properties of the loaded content, of progress and of the match cursor *)

\* C21: after every successful content load (a chapter completion in paged
\* mode, or the completion of the stitch) the line sequence has at least one line
C21_LoadLeavesALine ==
    [][(ev'.type \in {"chapter", "all"} /\ ev'.ok) => Len(v'.lines) >= 1]_vars

\* C22: the chapter progress the header shows is 100% whenever
\* offset + visibleLines >= lineCount, also with no line at all; otherwise it
\* is offset / lineCount (as a whole percentage) and below 100%
C22_ProgressOfLastPage ==
    (app.currentView = "Reader" /\ v.book # NoBook)
        => IF v.lineOffset + visibleLines(v) >= Len(v.lines)
           THEN calculateProgress(v) = 100
           ELSE /\ calculateProgress(v) = (v.lineOffset * 100) \div Len(v.lines)
                /\ 0 <= calculateProgress(v) /\ calculateProgress(v) < 100

\* C23: with K >= 1 matches and the current match i in 0..K-1, key n (Next)
\* makes the current match (i+1) mod K and key N (Prev) makes it (i-1+K) mod K;
\* Prev after Next and Next after Prev give i again
C23_NextPrevCyclic ==
    [][(/\ ev'.type = "key" /\ ev'.key \in {"n", "N"}
        /\ ~v.showTOC /\ ~v.showBookmarks /\ ~v.searchMode
        /\ v.searchActive
        /\ Len(v.searchMatches) >= 1
        /\ v.currentMatch \in 0..(Len(v.searchMatches) - 1))
          => LET K == Len(v.searchMatches)
                 i == v.currentMatch
             IN  /\ v'.searchMatches = v.searchMatches
                 /\ v'.currentMatch \in 0..(K - 1)
                 /\ ev'.key = "n" => /\ v'.currentMatch = (i + 1) % K
                                     /\ prevMatch(v').currentMatch = i
                 /\ ev'.key = "N" => /\ v'.currentMatch = (i - 1 + K) % K
                                     /\ nextMatch(v').currentMatch = i]_vars

\* C23 witness: key N has taken the cursor to the last of three or more matches
C23_Witness ==
    /\ ev.type = "key" /\ ev.key = "N"
    /\ v.searchActive
    /\ Len(v.searchMatches) >= 3
    /\ v.currentMatch = Len(v.searchMatches) - 1

\* C24: when a non-empty query is submitted, the match list is exactly the
\* list of all (line, i, i + |query|) such that the case-folded line contains
\* the case-folded query at offset i, overlapping occurrences included, in
\* ascending order of (lineIndex, startOffset) and without duplicates.
C24_MatchListIsComplete ==
    [][(/\ ev'.type = "key" /\ ev'.key = "enter"
        /\ app.currentView = "Reader"
        /\ ~v.showTOC /\ ~v.showBookmarks
        /\ v.searchMode /\ v.searchQuery # <<>>)
          => LET q == ToLower(v.searchQuery)
                 n == Len(v.searchQuery)
                 found == v'.searchMatches
                 Occurs(l, i) ==
                     /\ i + n <= Len(v.lines[l + 1])
                     /\ SubSeq(ToLower(v.lines[l + 1]), i + 1, i + n) = q
             IN  /\ v'.lines = v.lines
                 /\ \A k \in 1..Len(found) :
                       /\ found[k].lineIndex \in 0..(Len(v.lines) - 1)
                       /\ found[k].startOffset >= 0
                       /\ Occurs(found[k].lineIndex, found[k].startOffset)
                       /\ found[k].endOffset = found[k].startOffset + n
                 /\ \A l \in 0..(Len(v.lines) - 1) :
                       \A i \in 0..Len(v.lines[l + 1]) :
                          Occurs(l, i) =>
                             \E k \in 1..Len(found) :
                                /\ found[k].lineIndex = l
                                /\ found[k].startOffset = i
                 /\ \A k \in 1..(Len(found) - 1) :
                       \/ found[k].lineIndex < found[k + 1].lineIndex
                       \/ /\ found[k].lineIndex = found[k + 1].lineIndex
                          /\ found[k].startOffset < found[k + 1].startOffset]_vars

\* C24 witness: the query "aa" was submitted on the single line "aaa" and the
\* list holds the two overlapping occurrences (0, 2) and (1, 3)
C24_Witness ==
    /\ ev.type = "key" /\ ev.key = "enter" /\ ~v.searchMode
    /\ v.lines = << <<"a", "a", "a">> >>
    /\ v.searchQuery = <<"a", "a">>
    /\ v.searchMatches =
          << [lineIndex |-> 0, startOffset |-> 0, endOffset |-> 2],
             [lineIndex |-> 0, startOffset |-> 1, endOffset |-> 3] >>

\* C25: after a submit that finds at least one match, and after every step to
\* the next or the previous match, the line of the current match is inside
\* the visible window; the offset is unchanged when the line was already
\* visible, is the match line when the line was above the window, and is
\* matchLine - visibleLines + 1 when it was below.
C25_CurrentMatchVisible ==
    [][(/\ ev'.type = "key" /\ app.currentView = "Reader"
        /\ ~v.showTOC /\ ~v.showBookmarks
        /\ \/ /\ ev'.key = "enter" /\ v.searchMode /\ v.searchQuery # <<>>
              /\ Len(v'.searchMatches) >= 1
           \/ /\ ev'.key \in {"n", "N"} /\ ~v.searchMode
              /\ v.searchActive /\ Len(v.searchMatches) >= 1)
          => LET matchLine == v'.searchMatches[v'.currentMatch + 1].lineIndex
                 visible == visibleLines(v')
             IN  /\ v'.currentMatch \in 0..(Len(v'.searchMatches) - 1)
                 /\ visible = visibleLines(v)
                 /\ v'.lineOffset <= matchLine
                 /\ matchLine < v'.lineOffset + visible
                 /\ v'.lineOffset =
                       IF matchLine < v.lineOffset THEN matchLine
                       ELSE IF matchLine >= v.lineOffset + visible
                            THEN matchLine - visible + 1
                            ELSE v.lineOffset]_vars

\* C25 witness: a step to the next match has scrolled a window of two lines
\* down so that the match is on its last line
C25_Witness ==
    /\ ev.type = "key" /\ ev.key = "n" /\ v.searchActive
    /\ visibleLines(v) = 2 /\ v.lineOffset = 2
    /\ v.currentMatch \in 1..(Len(v.searchMatches) - 1)
    /\ v.searchMatches[v.currentMatch + 1].lineIndex = 3
    /\ v.searchMatches[v.currentMatch].lineIndex < 2

-----------------------------------------------------------------------------
(* Properties of the stitched document *)

\* C26: when a non-empty ordered chapter list has been stitched, the boundary
\* table has one entry per chapter, its first entry has firstLine 0, chapter
\* index and firstLine are strictly increasing along the table, and every
\* firstLine is a valid index into the stitched line sequence.
C26_BoundaryTableShape ==
    [][(ev'.type = "all" /\ ev'.ok /\ ev'.chapter >= 1)
          => LET table == v'.chapterBoundaries
                 N == ev'.chapter
             IN  /\ Len(table) = N
                 /\ \A k \in 1..N : table[k].chapterIndex = k - 1
                 /\ table[1].lineStart = 0
                 /\ \A k \in 1..(N - 1) :
                       /\ table[k].chapterIndex < table[k + 1].chapterIndex
                       /\ table[k].lineStart < table[k + 1].lineStart
                 /\ \A k \in 1..N :
                       /\ table[k].lineStart >= 0
                       /\ table[k].lineStart < Len(v'.lines)]_vars

\* C26 witness: every chapter of the document has been stitched and the last
\* boundary lies beyond the header of the first chapter
C26_Witness ==
    /\ ev.type = "all" /\ ev.ok /\ ev.chapter = NumChapters
    /\ v.continuousMode
    /\ Len(v.chapterBoundaries) = NumChapters
    /\ v.chapterBoundaries[NumChapters].lineStart > 3
    /\ v.lines = v.allChapterContent

\* C27: after N chapters have been stitched, the chapter lookup applied to
\* every line index in increasing order is non-decreasing and takes every
\* value of 0..N-1, and for each line it returns the chapter of the boundary
\* with the greatest firstLine at or before the line.
C27_ChapterAtMonotoneOnto ==
    [][(ev'.type = "all" /\ ev'.ok /\ ev'.chapter >= 1)
          => LET table == v'.chapterBoundaries
                 N == ev'.chapter
                 last == Len(v'.lines) - 1
                 ChapterAt(line) == getCurrentChapterFromLine(v', line)
             IN  /\ \A line \in 0..(last - 1) : ChapterAt(line) <= ChapterAt(line + 1)
                 /\ {ChapterAt(line) : line \in 0..last} = 0..(N - 1)
                 /\ \A line \in 0..last :
                       \E k \in 1..Len(table) :
                          /\ table[k].lineStart <= line
                          /\ \A j \in 1..Len(table) :
                                table[j].lineStart <= line
                                   => table[j].lineStart <= table[k].lineStart
                          /\ ChapterAt(line) = table[k].chapterIndex]_vars

\* C28: whenever the header is rendered for a document with chapters and
\* lines, in either mode, the book progress it shows is
\* (c + ChapterProgress) / totalChapters as a whole percentage, where c is
\* the chapter that owns the viewport offset and ChapterProgress is the
\* progress fraction over that chapter's own lines; it never exceeds 100 and
\* a scroll forward never lowers it.
C28_BookProgress ==
    [][LET Shown(a, w) == /\ a.currentView = "Reader" /\ w.book # NoBook
                          /\ ~w.showTOC /\ ~w.showBookmarks
                          /\ Len(w.chapters) >= 1 /\ Len(w.lines) >= 1
           Stitched(w) == w.continuousMode /\ Len(w.chapterBoundaries) >= 1
           \* the entry of the boundary table that owns the offset
           Entry(w) == CHOOSE k \in 1..Len(w.chapterBoundaries) :
                          /\ w.chapterBoundaries[k].lineStart <= w.lineOffset
                          /\ \A j \in 1..Len(w.chapterBoundaries) :
                                w.chapterBoundaries[j].lineStart <= w.lineOffset
                                   => w.chapterBoundaries[j].lineStart
                                         <= w.chapterBoundaries[k].lineStart
           First(w) == IF Stitched(w) THEN w.chapterBoundaries[Entry(w)].lineStart
                       ELSE 0
           Beyond(w) == IF Stitched(w) /\ Entry(w) < Len(w.chapterBoundaries)
                        THEN w.chapterBoundaries[Entry(w) + 1].lineStart
                        ELSE Len(w.lines)
           Owner(w) == IF Stitched(w) THEN w.chapterBoundaries[Entry(w)].chapterIndex
                       ELSE w.chapter
           Expected(w) ==
               LET total == Beyond(w) - First(w)
                   offset == w.lineOffset - First(w)
                   N == Len(w.chapters)
               IN  IF offset + visibleLines(w) >= total
                   THEN ((Owner(w) + 1) * 100) \div N
                   ELSE ((Owner(w) * total + offset) * 100) \div (N * total)
       IN  /\ Shown(app', v') => /\ calculateBookProgress(v') = Expected(v')
                                 /\ calculateBookProgress(v') <= 100
           /\ (/\ Shown(app, v) /\ Shown(app', v')
               /\ ev'.type = "key" /\ ev'.key \in {"j", "G"}
               /\ v'.lineOffset >= v.lineOffset)
                 => calculateBookProgress(v') >= calculateBookProgress(v)]_vars

-----------------------------------------------------------------------------
(* Properties of the text scale and of the wrap width *)

\* C29: after every step the text scale is within [MinTextScale,
\* MaxTextScale]; zoom in, zoom out and reset give the scale plus the step,
\* minus the step and the default, clamped to the range; a zoom at the bound
\* changes neither the scale nor the lines; no other event changes the scale.
C29_TextScaleInRange ==
    [][LET zoomKey == /\ ev'.type = "key" /\ app.currentView = "Reader"
                      /\ ~app.showHelp
                      /\ ~v.showTOC /\ ~v.showBookmarks /\ ~v.searchMode
           Clamp(s) == max(MinTextScale, min(MaxTextScale, s))
       IN  /\ v'.textScale >= MinTextScale /\ v'.textScale <= MaxTextScale
           /\ (zoomKey /\ ev'.key = "+")
                 => v'.textScale = Clamp(v.textScale + TextScaleStep)
           /\ (zoomKey /\ ev'.key = "-")
                 => v'.textScale = Clamp(v.textScale - TextScaleStep)
           /\ (zoomKey /\ ev'.key = "0") => v'.textScale = DefaultTextScale
           /\ (/\ zoomKey
               /\ \/ ev'.key = "+" /\ v.textScale = MaxTextScale
                  \/ ev'.key = "-" /\ v.textScale = MinTextScale)
                 => v'.textScale = v.textScale /\ v'.lines = v.lines
           /\ v'.textScale # v.textScale
                 => zoomKey /\ ev'.key \in {"+", "-", "0"}]_vars

\* C29 witness: a zoom in has left a loaded chapter at the largest scale
C29_Witness ==
    /\ ev.type = "key" /\ ev.key = "+"
    /\ v.textScale = MaxTextScale /\ v.content # <<>> /\ Len(v.lines) >= 2

\* C30: at every viewport width and text scale, the width that wrapContent
\* and buildContinuousContent pass to the line wrapper is at least MinWidth
\* (20) and at least 1, and is not above the base width (the viewport width
\* less the padding).
C30_WrapWidthBounds ==
    LET maxWidth == ScaledWidth(v.width, v.textScale)
    IN  /\ maxWidth >= MinWidth
        /\ maxWidth >= 1
        /\ maxWidth <= v.width - Padding

\* C31: a step that changes the text scale re-wraps the raw content at the
\* width of the new scale and leaves the integer viewport offset, the current
\* chapter, the raw chapter content and the pending position as they were.
C31_ZoomKeepsOffset ==
    [][(v'.textScale # v.textScale)
          => /\ v'.lineOffset = v.lineOffset
             /\ v'.chapter = v.chapter
             /\ v'.content = v.content
             /\ v'.pendingPosition = v.pendingPosition
             /\ v'.hasPendingPos = v.hasPendingPos
             /\ v.content # <<>>
                   => v'.lines = WrapText(v.content,
                                          ScaledWidth(v.width, v'.textScale))]_vars

\* C31 witness: a zoom in to the largest scale has re-wrapped a chapter whose
\* viewport had been scrolled down, and the offset is still the scrolled one
C31_Witness ==
    /\ ev.type = "key" /\ ev.key = "+" /\ v.textScale = MaxTextScale
    /\ v.content # <<>> /\ v.lineOffset >= 2
    /\ v.lines = WrapText(v.content, ScaledWidth(v.width, v.textScale))
    /\ v.lines # WrapText(v.content, ScaledWidth(v.width, DefaultTextScale))

-----------------------------------------------------------------------------
(* Properties of the session as a whole *)

\* C32: in every state from the construction of the view on, the current
\* match index is -1 exactly when the match list is empty, and otherwise is
\* an index into the match list.
C32_CurrentMatchIndex ==
    IF Len(v.searchMatches) = 0 THEN v.currentMatch = -1
    ELSE v.currentMatch >= 0 /\ v.currentMatch < Len(v.searchMatches)

\* C33: a book is opened, the position load returns the stored position
\* (k, f) and no key is pressed; when the last of the TOC, position and
\* chapter completions has been handled, in whatever order they came, the
\* session shows chapter k at offset floor(f * lineCount), clamped to the
\* range of the viewport.
C33_OpensAtStoredPosition ==
    [][(/\ app.currentView = "Reader"
        /\ ev'.type \in {"toc", "position", "chapter"}
        /\ inflight # EmptyBag /\ inflight' = EmptyBag)
          => \E pos \in StoredPositions :
                LET lineCount == Len(v'.lines)
                    target == (pos.position[1] * lineCount) \div pos.position[2]
                    maxOffset == max(0, lineCount - visibleLines(v'))
                IN  /\ v'.chapter = pos.chapter
                    /\ v'.content = ChapterTexts[pos.chapter + 1]
                    /\ ~v'.loading
                    /\ v'.lineOffset = min(target, maxOffset)]_vars

\* C34: when a key navigates to another chapter, the save it starts stores
\* the reading position held before the navigation: the chapter being left
\* and the viewport offset as it was before the navigation reset it.  The
\* save reads the view no earlier than the end of the key's handler, so the
\* position read there is the position held before the key.
C34_NavigationSavesOldPosition ==
    [][(/\ ev'.type = "key" /\ app.currentView = "Reader"
        /\ \A m \in BagToSet(inflight) : m.type # "save"
        /\ \E m \in BagToSet(inflight') : m.type = "save")
          => /\ Len(savePosition(v')) = 1
             /\ savePosition(v')[1].chapter = v.chapter
             /\ savePosition(v')[1].position = <<v.lineOffset, max(1, Len(v.lines))>>]_vars

\* C35: when the session of a document that has a stored position ends
\* without a scroll or a navigation, the chapter the exit save writes is the
\* chapter of the stored position, also when the session ends before the
\* position load or the chapter load has completed.
C35_EarlyExitKeepsEntryChapter ==
    [][(app.currentView = "Reader" /\ app'.currentView = "Library")
          => \E pos \in StoredPositions :
                /\ Len(saved') = 1
                /\ saved'[1].book = v.book
                /\ saved'[1].chapter = pos.chapter]_vars

\* C36: whenever the reader holds a non-empty table of contents, the current
\* chapter index is an index of it, and so is the chapter index of every
\* chapter fetch the session has in flight.
C36_ChapterIndexInRange ==
    (app.currentView = "Reader" /\ Len(v.chapters) >= 1)
        => /\ v.chapter >= 0 /\ v.chapter < Len(v.chapters)
           /\ \A m \in BagToSet(inflight) :
                 m.type = "chapter" => (m.chapter >= 0 /\ m.chapter < Len(v.chapters))

\* C37: while continuous mode is on and the stitch has completed, the line
\* sequence is the stitched sequence the boundary table describes (every
\* boundary firstLine is a line index); every key and every completion that
\* leaves the session in continuous mode preserves this, and a stitch that
\* completes in paged mode does not replace the paged line sequence.
C37_StitchedWhileContinuous ==
    [][LET Stitched(w) ==
               /\ w.lines = w.allChapterContent
               /\ \A k \in 1..Len(w.chapterBoundaries) :
                     /\ w.chapterBoundaries[k].lineStart >= 0
                     /\ w.chapterBoundaries[k].lineStart < Len(w.lines)
       IN  /\ (/\ app.currentView = "Reader" /\ app'.currentView = "Reader"
               /\ v.continuousMode /\ v'.continuousMode
               /\ v.chapterBoundaries # <<>> /\ Stitched(v)
               /\ ev'.type \in {"key", "chapter", "toc", "position"})
                 => (v'.chapterBoundaries # <<>> /\ Stitched(v'))
           /\ (ev'.type = "all" /\ ~v.continuousMode) => v'.lines = v.lines]_vars

\* C38: immediately after SetBook for a new document the session is in paged
\* mode with overlay mode Normal, and no line sequence, boundary table, search
\* state, pending position or error of the previously read document is left
C38_FreshSessionOnOpen ==
    [][(ev'.type = "open" /\ v.book # NoBook /\ v'.book # v.book)
          => /\ ~v'.continuousMode
             /\ ~v'.showTOC /\ ~v'.showBookmarks /\ ~v'.searchMode
             /\ v'.lines = <<>>
             /\ v'.chapterBoundaries = <<>> /\ v'.allChapterContent = <<>>
             /\ v'.searchQuery = <<>> /\ v'.searchMatches = <<>>
             /\ ~v'.searchActive
             /\ ~v'.hasPendingPos
             /\ v'.err = NoErr]_vars

\* C39: at most one of the overlays table of contents, bookmark list and
\* search input is active, and while one is active a cursor key (j, k, g, G,
\* down, up, home, end) changes neither the viewport offset, the line
\* sequence, the current chapter nor the text scale
C39_OverlayKeysLeaveText ==
    [][LET active(w) == {o \in {"toc", "bookmarks", "search"} :
                            \/ o = "toc" /\ w.showTOC
                            \/ o = "bookmarks" /\ w.showBookmarks
                            \/ o = "search" /\ w.searchMode}
       IN  /\ Cardinality(active(v')) <= 1
           /\ (/\ ev'.type = "key" /\ ev'.key \in CursorKeys
               /\ active(v) # {})
                 => /\ v'.lineOffset = v.lineOffset
                    /\ v'.lines = v.lines
                    /\ v'.chapter = v.chapter
                    /\ v'.textScale = v.textScale]_vars

\* C39 witness: g was typed into the search input while the chapter is shown
\* from a line below its first
C39_Witness ==
    /\ app.currentView = "Reader"
    /\ v.searchMode /\ ~v.showTOC /\ ~v.showBookmarks
    /\ ev.type = "key" /\ ev.key = "g"
    /\ v.searchQuery = <<"g">>
    /\ v.lineOffset > 0

\* C40: if the user eventually presses no more keys, and every fetch in
\* flight is eventually delivered, the opened session eventually leaves the
\* loading state for good and shows content or an error
C40_LoadingEnds ==
    (<>[][ev'.type # "key"]_vars)
        => <>[](app.currentView = "Reader"
                  => (~v.loading /\ (v.lines # <<>> \/ v.err # NoErr)))

====
